---- MODULE Spec2Model ----
(***************************************************************************)
(* obinexus/wsys: the dual-vector sealing scheme (src/auraseal.py and      *)
(* src/wsys_3x3_polar_gate/auraseal_minimal.py) and the self-healing data  *)
(* architecture (src/auraseal512/src/v0.1/self_healing_data_architecture.py)*)
(* as state machines, with the document sealer                             *)
(* (src/auraseal512/src/MVP_511v2/auraseal512.py), the mailer              *)
(* (src/auraseal512/src/auraseal_mailer.py) and the PhenoAVL archives      *)
(* (src/auraseal512/src/pyauraseal514.py).  Each program has its own       *)
(* variables and its own specification: Spec (one seal), SpecSession (one  *)
(* seal touched by its methods alone), SpecPeer (two seals), SpecThreads   *)
(* (threads in verify and heal on one seal), SpecArch (the engines of the  *)
(* architecture), SpecRecovery (the validate/recover loop), SpecSha (the   *)
(* architecture object), SpecCoord (the coordinate mapper), Spec512 (the   *)
(* document sealer), SpecMailer, SpecMailerRuns (archives numbered run     *)
(* after run), SpecPheno, SpecTrie (a PhenoAVLTrie node by node),          *)
(* SpecSwitch (the sparse consensus switches of src/wsys_3x3_polar_gate),  *)
(* and for src/consciousness/src SpecStates (the state transitions),       *)
(* SpecBreaker (the circuit breaker) and SpecBarrier (the queries).        *)
(*                                                                         *)
(* Byte strings and text strings are sequences of chunks.  A chunk is      *)
(*   [k, s, a, off, n]                                                     *)
(* k = "lit": the n = Len(s) ASCII bytes (or characters) of the string s;  *)
(* k = "raw": the n = Len(s) bytes whose values are the numbers of s;      *)
(* any other k: bytes off .. off+n-1 of the output of library function k   *)
(* applied to the arguments a (byte strings), s carrying the random draw   *)
(* of k where it has one.  Library functions (hashlib, ecdsa, base58,      *)
(* secrets) are symbolic: two outputs are equal iff function and arguments *)
(* are equal, which is what collision resistance gives up to negligible    *)
(* probability.                                                            *)
(***************************************************************************)
EXTENDS Integers, Sequences, FiniteSets, TLC

\* ------------------------------------------------------------------ bounds

\* secrets.token_bytes draws one of NumTokens values
NumTokens == 2
\* bit vectors handed to the validation engine have at most MaxVecLen bits
MaxVecLen == 3

\* ------------------------------------------------------- bytes and strings

Min(a, b) == IF a < b THEN a ELSE b
Max(a, b) == IF a > b THEN a ELSE b

Chunk(k, s, a, off, n) == [k |-> k, s |-> s, a |-> a, off |-> off, n |-> n]

\* b"..." / "...": the ASCII literal s
Lit(s) == IF s = "" THEN <<>> ELSE << Chunk("lit", s, <<>>, 0, Len(s)) >>

\* bytes(s): the bytes whose values are the numbers s
Raw(s) == IF s = <<>> THEN <<>> ELSE << Chunk("raw", s, <<>>, 0, Len(s)) >>

\* bytes([c]) * n
Rep(c, n) == Raw([i \in 1..n |-> c])

\* the whole output, n bytes long, of library function k on arguments a
Sym(k, s, a, n) == << Chunk(k, s, a, 0, n) >>

\* len(b)
RECURSIVE BLen(_)
BLen(b) == IF b = <<>> THEN 0 ELSE Head(b).n + BLen(Tail(b))

\* two neighbouring chunks that are one chunk
Joins(c, d) ==
    /\ d.k = c.k
    /\ \/ c.k \in {"lit", "raw"}
       \/ d.s = c.s /\ d.a = c.a /\ d.off = c.off + c.n

Join(c, d) ==
    IF c.k \in {"lit", "raw"} THEN Chunk(c.k, c.s \o d.s, <<>>, 0, c.n + d.n)
    ELSE [c EXCEPT !.n = c.n + d.n]

\* the canonical form: no empty chunk, no two neighbours that join
RECURSIVE Norm(_)
Norm(b) ==
    IF b = <<>> THEN <<>>
    ELSE LET c == Head(b)
             r == Norm(Tail(b))
         IN  IF c.n = 0 THEN r
             ELSE IF r # <<>> /\ Joins(c, Head(r)) THEN <<Join(c, Head(r))>> \o Tail(r)
             ELSE <<c>> \o r

\* x + y
Cat(x, y) == Norm(x \o y)

RECURSIVE Slice(_, _, _)

\* bytes i .. j-1 of chunk c, 0 <= i < j <= c.n; an even-aligned piece of the
\* hex text of b is the hex text of a piece of b
SubChunk(c, i, j) ==
    IF c.k \in {"lit", "raw"} THEN Chunk(c.k, SubSeq(c.s, i + 1, j), <<>>, 0, j - i)
    ELSE IF c.k = "hex" /\ (c.off + i) % 2 = 0 /\ (c.off + j) % 2 = 0
    THEN Chunk("hex", <<>>, << Norm(Slice(c.a[1], (c.off + i) \div 2, (c.off + j) \div 2)) >>, 0, j - i)
    ELSE [c EXCEPT !.off = c.off + i, !.n = j - i]

\* b[i:j] for 0 <= i, 0 <= j
Slice(b, i, j) ==
    IF b = <<>> \/ j <= i THEN <<>>
    ELSE LET c == Head(b) IN
         IF i >= c.n THEN Slice(Tail(b), i - c.n, j - c.n)
         ELSE <<SubChunk(c, i, Min(j, c.n))>> \o Slice(Tail(b), 0, j - c.n)

\* Python's reading of a slice index: negative counts from the end, clamped
Idx(b, i) == IF i < 0 THEN Max(BLen(b) + i, 0) ELSE Min(i, BLen(b))

\* b[i:j], b[i:], b[:j] with Python's indices
PySlice(b, i, j) == Norm(Slice(b, Idx(b, i), Idx(b, j)))
PyFrom(b, i) == Norm(Slice(b, Idx(b, i), BLen(b)))
PyTo(b, j) == Norm(Slice(b, 0, Idx(b, j)))

\* ------------------------------------------------------------- libraries

\* hashlib.sha256(x).digest(), hashlib.sha512(x).digest(),
\* hashlib.blake2b(x, digest_size=16).digest()
sha256(x) == Sym("sha256", <<>>, <<x>>, 32)
sha512(x) == Sym("sha512", <<>>, <<x>>, 64)
blake2b16(x) == Sym("blake2b", <<>>, <<x>>, 16)

\* secrets.token_bytes(n), the draw being t
token_bytes(t, n) == Sym("tok", <<t>>, <<>>, n)

\* bytes.hex()
Hex(b) == IF b = <<>> THEN <<>> ELSE Sym("hex", <<>>, <<b>>, 2 * BLen(b))

\* ecdsa.SigningKey.from_string(priv, curve=SECP256k1) accepts 32 bytes that
\* are a scalar in 1 .. order-1 (a digest or a random draw is one, up to
\* negligible probability)
ValidKey(priv) == BLen(priv) = 32 /\ priv # Rep(0, 32) /\ priv # Rep(255, 32)

\* sk.verifying_key.to_string(): 64 bytes
verifying_key(priv) == Sym("vk", <<>>, <<priv>>, 64)

\* sk.sign(msg): 64 bytes, the random nonce being t
ecdsa_sign(priv, msg, t) == Sym("ecdsa", <<t>>, <<priv, msg>>, 64)

\* sk.verifying_key.verify(sig, msg): True, or it raises BadSignatureError
\* (FALSE here)
ecdsa_verify(priv, sig, msg) ==
    /\ Len(sig) = 1
    /\ sig[1].k = "ecdsa" /\ sig[1].a = <<priv, msg>>
    /\ sig[1].off = 0 /\ sig[1].n = 64

\* base58's alphabet
B58Alphabet == "123456789ABCDEFGHJKLMNPQRSTUVWXYZabcdefghijkmnopqrstuvwxyz"

\* character i of the string s, as a string
Char(s, i) == SubSeq(s, i, i)

IsB58(c) == \E i \in 1..Len(B58Alphabet) : Char(B58Alphabet, i) = c

B58Digit(c) == (CHOOSE i \in 1..Len(B58Alphabet) : Char(B58Alphabet, i) = c) - 1

\* the number a base58 digit string writes
RECURSIVE B58Value(_)
B58Value(cs) ==
    IF cs = "" THEN 0
    ELSE B58Value(SubSeq(cs, 1, Len(cs) - 1)) * Len(B58Alphabet)
         + B58Digit(Char(cs, Len(cs)))

\* the big-endian bytes of v, none for 0
RECURSIVE BigEndian(_)
BigEndian(v) == IF v = 0 THEN <<>> ELSE BigEndian(v \div 256) \o << v % 256 >>

\* the number of leading '1' characters, each a leading zero byte
RECURSIVE LeadingOnes(_)
LeadingOnes(cs) ==
    IF cs # "" /\ Char(cs, 1) = Char(B58Alphabet, 1)
    THEN 1 + LeadingOnes(SubSeq(cs, 2, Len(cs)))
    ELSE 0

\* base58.b58encode(b).decode()
b58encode(b) == IF b = <<>> THEN <<>> ELSE Sym("b58", <<>>, <<b>>, BLen(b))

\* base58.b58decode(s): [ok, v]; ok = FALSE when it raises (a character that
\* is not of the alphabet: every literal with one, and every text holding
\* hex text or a ':')
b58decode(s) ==
    IF s = <<>> THEN [ok |-> TRUE, v |-> <<>>]
    ELSE IF Len(s) = 1 /\ s[1].k = "b58" /\ s[1].off = 0 /\ s[1].n = BLen(s[1].a[1])
    THEN [ok |-> TRUE, v |-> s[1].a[1]]
    ELSE IF Len(s) = 1 /\ s[1].k = "lit" /\ \A i \in 1..s[1].n : IsB58(Char(s[1].s, i))
    THEN [ok |-> TRUE,
          v |-> Cat(Rep(0, LeadingOnes(s[1].s)), Raw(BigEndian(B58Value(s[1].s))))]
    ELSE [ok |-> FALSE, v |-> <<>>]

\* s.startswith(p), p a literal
StartsWith(s, p) ==
    /\ s # <<>>
    /\ Head(s).k = "lit"
    /\ Len(Head(s).s) >= Len(p)
    /\ SubSeq(Head(s).s, 1, Len(p)) = p

\* the pieces of the string cs between the separators sep
RECURSIVE SplitLit(_, _)
SplitLit(cs, sep) ==
    IF \A i \in 1..Len(cs) : Char(cs, i) # sep THEN << cs >>
    ELSE LET i == CHOOSE j \in 1..Len(cs) :
                      Char(cs, j) = sep /\ \A h \in 1..(j - 1) : Char(cs, h) # sep
         IN  << SubSeq(cs, 1, i - 1) >> \o SplitLit(SubSeq(cs, i + 1, Len(cs)), sep)

\* s.split(sep), sep one character; hex and base58 text hold no ':'
RECURSIVE Split(_, _)
Split(s, sep) ==
    IF s = <<>> THEN << <<>> >>
    ELSE LET c == Head(s)
             r == Split(Tail(s), sep)
         IN  IF c.k # "lit" THEN << Cat(<< c >>, Head(r)) >> \o Tail(r)
             ELSE LET p == SplitLit(c.s, sep)
                  IN  [i \in 1..(Len(p) - 1) |-> Lit(p[i])]
                      \o << Cat(Lit(p[Len(p)]), Head(r)) >> \o Tail(r)

\* ------------------------------------------------------------------ state

VARIABLES
    seal,   \* the session's AuraSeal object (of src/auraseal.py or of
            \* auraseal_minimal.py)
    wire,   \* the last signature that object's sign handed out, and the
            \* message signed
    ret,    \* the last call: operation, arguments, result or exception
    peer,   \* a second AuraSeal object, whose signatures the first is shown
    arch,   \* the last call on the self-healing data architecture
    sha,    \* the SelfHealingDataArchitecture object
    data_structure,         \* the FaultTolerantDataStructure in the caller's hand
    algorithm_structure,    \* the FaultTolerantAlgorithmStructure in the caller's hand
    auraseal512,    \* the AuraSeal512 object, its key files and its sealed archive
    mailer, \* the key file and the out_dir of auraseal_mailer.py, and its last call
    pheno,  \* the PhenoAVL object of pyauraseal514.py, the archives it wrote
            \* and its last call
    trie,   \* a PhenoAVLTrie of pyauraseal514.py on its own, and its last call
    switch, \* the PolicySwitch and the SparseSwitch of wsys_3x3_polar_gate, and
            \* the last derive
    system, \* a ConsciousnessSystem, of conscionss_state.py or of enhanced.py,
            \* and its last call
    threads \* the threads that call verify and heal on one seal at once

vars == << seal, wire, ret, peer, arch, sha, data_structure, algorithm_structure,
           auraseal512, mailer, pheno, trie, switch, system, threads >>

\* what the calls on a seal leave alone
notSeal == << peer, arch, sha, data_structure, algorithm_structure, auraseal512, mailer,
             pheno, trie, switch, system, threads >>

\* what the calls on the architecture leave alone
notArch == << seal, wire, ret, peer, auraseal512, mailer, pheno, trie, switch, system, threads >>

\* the constants of src/auraseal.py
OBINexus_AURA_00_VETO == Lit("OBINexus_AURA_00_VETO")
AURA_PUB1 == Lit("AURA_PUB1")
AURA_PUB2 == Lit("AURA_PUB2")

\* the constants of auraseal_minimal.py
OBINEXUS_00_VETO_GENZ_OVERRIDE == Lit("OBINEXUS_00_VETO_GENZ_OVERRIDE")
AURA_PUB1_HEAL == Lit("AURA_PUB1_HEAL")
AURA_PUB2_HEAL == Lit("AURA_PUB2_HEAL")
AURASIG == "AURASIG:"

\* what birth derived: its argument and the three values derived from it
Born(entropy, priv, pub1, pub2) ==
    [entropy |-> entropy, priv |-> priv, pub1 |-> pub1, pub2 |-> pub2]
NoBorn == Born(<<>>, <<>>, <<>>, <<>>)

\* cls(priv, pub1, pub2, bloom, seal_id): the dataclass of src/auraseal.py
\* (impl = "AuraSeal"); the one of auraseal_minimal.py (impl = "Minimal") has
\* no bloom
Seal(impl, priv, pub1, pub2, bloom, seal_id) ==
    [impl |-> impl, priv |-> priv, pub1 |-> pub1, pub2 |-> pub2,
     bloom |-> bloom, seal_id |-> seal_id]
NoSeal == Seal("none", <<>>, <<>>, <<>>, {}, <<>>)

NoWire == [sig |-> <<>>, msg |-> <<>>]

\* a call's record: the class and the operation, the arguments (arg: entropy
\* or damaged_pub), the exception raised ("" for none), the result (bval or
\* vec), and for a birth that follows a birth what that one derived (prev)
Ret(impl, op, arg, msg, sig, exc, bval, vec, prev) ==
    [impl |-> impl, op |-> op, arg |-> arg, msg |-> msg, sig |-> sig, exc |-> exc,
     bval |-> bval, vec |-> vec, prev |-> prev]
NoRet == Ret("none", "none", <<>>, <<>>, <<>>, "", FALSE, <<>>, NoBorn)

\* ---------------------------------------------------------------- inputs

Tokens == 1..NumTokens

\* entropy handed to birth: none, one byte, 32 bytes of 0x41
Entropies == { Lit(""), Lit("A"), Lit("AAAAAAAAAAAAAAAAAAAAAAAAAAAAAAAA") }

Msgs == { Lit("hi"), Lit("ho") }

\* entropy handed to the birth of the second object: the 32 bytes the first
\* may be born from, and 32 bytes of 0x42
PeerEntropies == { Lit("AAAAAAAAAAAAAAAAAAAAAAAAAAAAAAAA"), Lit("BBBBBBBBBBBBBBBBBBBBBBBBBBBBBBBB") }

\* a corrupted public vector: 32 bytes that no birth derives
Garbage == Lit("XXXXXXXXXXXXXXXXXXXXXXXXXXXXXXXX")

\* another 32 bytes that no birth derives
Garbage2 == Lit("YYYYYYYYYYYYYYYYYYYYYYYYYYYYYYYY")

\* signature strings no sign call made: "" (decodes to no bytes), "abc" (the
\* base58 of three bytes), "AURASIG:abc" (the prefix and two fields, ':' no
\* base58 character)
Malformed == { Lit(""), Lit("abc"), Lit(AURASIG \o "abc") }

\* ------------------------------------------------------- src/auraseal.py

\* birth drawing its entropy whether or not it is given any
birth_AlwaysDraws(entropy, t, u) ==
    LET e == token_bytes(t, 256)
        priv == sha256(Cat(e, OBINexus_AURA_00_VETO))
        vk1 == PyTo(verifying_key(priv), 32)
        vk2 == PyFrom(verifying_key(priv), 32)
        pub1 == PyTo(sha512(Cat(vk1, AURA_PUB1)), 32)
        pub2 == PyTo(sha512(Cat(vk2, AURA_PUB2)), 32)
        bloom == { Hex(pub1), Hex(pub2) }
        seal_id == b58encode(Cat(Cat(PyTo(pub1, 8), PyTo(pub2, 8)), token_bytes(u, 8)))
    IN  Seal("AuraSeal", priv, pub1, pub2, bloom, seal_id)

\* birth registering the first fingerprint alone
birth_OneFingerprint(entropy, t, u) ==
    LET e == IF entropy = <<>> THEN token_bytes(t, 256) ELSE entropy
        priv == sha256(Cat(e, OBINexus_AURA_00_VETO))
        vk1 == PyTo(verifying_key(priv), 32)
        vk2 == PyFrom(verifying_key(priv), 32)
        pub1 == PyTo(sha512(Cat(vk1, AURA_PUB1)), 32)
        pub2 == PyTo(sha512(Cat(vk2, AURA_PUB2)), 32)
        bloom == { Hex(pub1) }
        seal_id == b58encode(Cat(Cat(PyTo(pub1, 8), PyTo(pub2, 8)), token_bytes(u, 8)))
    IN  Seal("AuraSeal", priv, pub1, pub2, bloom, seal_id)

\* AuraSeal.birth(entropy), t the draw taken when entropy is empty, u the
\* draw of the seal id
birth(entropy, t, u) ==
    LET e == IF entropy = <<>> THEN token_bytes(t, 256) ELSE entropy
        priv == sha256(Cat(e, OBINexus_AURA_00_VETO))
        vk1 == PyTo(verifying_key(priv), 32)
        vk2 == PyFrom(verifying_key(priv), 32)
        pub1 == PyTo(sha512(Cat(vk1, AURA_PUB1)), 32)
        pub2 == PyTo(sha512(Cat(vk2, AURA_PUB2)), 32)
        bloom == { Hex(pub1), Hex(pub2) }
        seal_id == b58encode(Cat(Cat(PyTo(pub1, 8), PyTo(pub2, 8)), token_bytes(u, 8)))
    IN  Seal("AuraSeal", priv, pub1, pub2, bloom, seal_id)

\* heal with the comparison turned round
heal_Swapped(self, damaged_pub) ==
    LET candidate == IF damaged_pub = self.pub1 THEN self.pub1 ELSE self.pub2
    IN  IF Hex(candidate) \in self.bloom
        THEN [exc |-> "", vec |-> candidate]
        ELSE [exc |-> "ValueError", vec |-> <<>>]

\* heal without the membership test
heal_NoOracle(self, damaged_pub) ==
    LET candidate == IF damaged_pub # self.pub1 THEN self.pub1 ELSE self.pub2
    IN  [exc |-> "", vec |-> candidate]

\* AuraSeal.heal(damaged_pub): [exc, vec]
heal(self, damaged_pub) ==
    LET candidate == IF damaged_pub # self.pub1 THEN self.pub1 ELSE self.pub2
    IN  IF Hex(candidate) \in self.bloom
        THEN [exc |-> "", vec |-> candidate]
        ELSE [exc |-> "ValueError", vec |-> <<>>]

\* AuraSeal.sign(msg), t the nonce: [exc, vec]
sign(self, msg, t) ==
    IF ~ValidKey(self.priv) THEN [exc |-> "MalformedPointError", vec |-> <<>>]
    ELSE [exc |-> "",
          vec |-> b58encode(Cat(Cat(ecdsa_sign(self.priv, msg, t), PyTo(self.pub1, 4)),
                                PyTo(self.pub2, 4)))]

\* AuraSeal.verify(msg, sig_b58): every exception is caught and answered False
verify(self, msg, sig_b58) ==
    LET d == b58decode(sig_b58)
        data == d.v
        sig == PyTo(data, -8)
        p1 == PySlice(data, -8, -4)
        p2 == PyFrom(data, -4)
        vk == Cat(self.pub1, self.pub2)
    IN  IF ~d.ok THEN FALSE
        ELSE IF p1 # PyTo(self.pub1, 4) \/ p2 # PyTo(self.pub2, 4) THEN FALSE
        ELSE IF ~ValidKey(self.priv) THEN FALSE
        ELSE verifying_key(self.priv) = vk /\ ecdsa_verify(self.priv, sig, msg)

\* -------------------------- src/wsys_3x3_polar_gate/auraseal_minimal.py

\* AuraSeal.birth(), t the draw
mbirth(t) ==
    LET entropy == Cat(token_bytes(t, 64), OBINEXUS_00_VETO_GENZ_OVERRIDE)
        priv == PyTo(sha512(entropy), 32)
        pub1 == PyTo(sha512(Cat(priv, AURA_PUB1_HEAL)), 32)
        pub2 == PyTo(sha512(Cat(priv, AURA_PUB2_HEAL)), 32)
        seal_id == Hex(blake2b16(Cat(pub1, pub2)))
    IN  Seal("Minimal", priv, pub1, pub2, {}, seal_id)

\* AuraSeal.sign(msg)
msign(self, msg) ==
    LET h == sha512(Cat(msg, self.priv))
    IN  Cat(Cat(Cat(Lit(AURASIG), PyTo(Hex(h), 64)), Lit(":")), self.seal_id)

\* verify comparing the seal id alone
mverify_SealOnly(self, msg, sig) ==
    IF ~StartsWith(sig, AURASIG) THEN [exc |-> "", bval |-> FALSE]
    ELSE LET fields == Split(sig, ":")
         IN  IF Len(fields) # 3 THEN [exc |-> "ValueError", bval |-> FALSE]
             ELSE [exc |-> "", bval |-> fields[3] = self.seal_id]

\* verify looking at the format of the signature alone
mverify_FormatOnly(self, msg, sig) ==
    IF ~StartsWith(sig, AURASIG) THEN [exc |-> "", bval |-> FALSE]
    ELSE LET fields == Split(sig, ":")
         IN  IF Len(fields) # 3 THEN [exc |-> "ValueError", bval |-> FALSE]
             ELSE [exc |-> "", bval |-> TRUE]

\* verify comparing the payload with the whole hex digest, not its first 64
\* characters
mverify_FullDigest(self, msg, sig) ==
    IF ~StartsWith(sig, AURASIG) THEN [exc |-> "", bval |-> FALSE]
    ELSE LET fields == Split(sig, ":")
         IN  IF Len(fields) # 3 THEN [exc |-> "ValueError", bval |-> FALSE]
             ELSE LET payload == fields[2]
                      sealf == fields[3]
                      expected == Hex(sha512(Cat(msg, self.priv)))
                  IN  [exc |-> "", bval |-> payload = expected /\ sealf = self.seal_id]

\* AuraSeal.verify(msg, sig): [exc, bval]; the unpacking of sig.split(":")
\* into three names raises ValueError unless there are three fields
mverify(self, msg, sig) ==
    IF ~StartsWith(sig, AURASIG) THEN [exc |-> "", bval |-> FALSE]
    ELSE LET fields == Split(sig, ":")
         IN  IF Len(fields) # 3 THEN [exc |-> "ValueError", bval |-> FALSE]
             ELSE LET payload == fields[2]
                      sealf == fields[3]
                      expected == PyTo(Hex(sha512(Cat(msg, self.priv))), 64)
                  IN  [exc |-> "", bval |-> payload = expected /\ sealf = self.seal_id]

\* ------------------- src/auraseal512/src/v0.1/self_healing_data_architecture.py

\* scores in thousandths: 0.95 and 0.0
ScoreAuthentic == 950
ScoreFailed == 0

\* the coherence threshold 0.954, in thousandths
CoherenceThreshold == 954

\* bit vectors of at most MaxVecLen bits
BitVectors == UNION { [1..n -> {0, 1}] : n \in 0..MaxVecLen }

\* the pair no failure leaves: failure_vectors = None
NoVectors == << >>

\* validate_compatibility handing back no failure vectors
validate_compatibility_NoFailureVectors(data_vector, algo_vector) ==
    LET is_authentic == Len(data_vector) = Len(algo_vector)
    IN  [is_authentic |-> is_authentic,
         failure_vectors |-> NoVectors,
         integrity_score |-> IF is_authentic THEN ScoreAuthentic ELSE ScoreFailed,
         authenticity_score |-> IF is_authentic THEN ScoreAuthentic ELSE ScoreFailed]

\* IsomorphicValidationEngine.validate_compatibility(data_vector, algo_vector)
validate_compatibility(data_vector, algo_vector) ==
    LET is_authentic == Len(data_vector) = Len(algo_vector)
    IN  [is_authentic |-> is_authentic,
         failure_vectors |-> IF is_authentic THEN NoVectors
                             ELSE << data_vector, algo_vector >>,
         integrity_score |-> IF is_authentic THEN ScoreAuthentic ELSE ScoreFailed,
         authenticity_score |-> IF is_authentic THEN ScoreAuthentic ELSE ScoreFailed]

\* 0.7, in thousandths
CORRUPTION_THRESHOLD == 700

\* sum(vector)
RECURSIVE PySum(_)
PySum(vector) == IF vector = <<>> THEN 0 ELSE Head(vector) + PySum(Tail(vector))

\* the formats the architecture encodes with
FormatPrimary == << 0, 1, 0, 1 >>
FormatSecondary == << 1, 1, 1, 0 >>
FormatExecution == << 1, 1, 1, 0 >>
FormatContext == << 1, 0, 0, 0 >>

\* an encoder that remembers its last encoding and answers the same request
\* with the inverted bits
DataModelEncoder_encode_Alternating(data, format) ==
    IF Len(format) = 0 THEN [exc |-> "ZeroDivisionError", vec |-> <<>>]
    ELSE LET plain == [i \in 1..4 |-> format[((i - 1) % Len(format)) + 1]]
         IN  IF arch.op = "encode" /\ arch.a = data /\ arch.b = format
                /\ arch.res.vec = plain
             THEN [exc |-> "", vec |-> [i \in 1..4 |-> 1 - plain[i]]]
             ELSE [exc |-> "", vec |-> plain]

\* DataModelEncoder.encode(data, format): [exc, vec]; format[i % len(format)]
\* divides by zero on an empty format
DataModelEncoder_encode(data, format) ==
    IF Len(format) = 0 THEN [exc |-> "ZeroDivisionError", vec |-> <<>>]
    ELSE [exc |-> "", vec |-> [i \in 1..4 |-> format[((i - 1) % Len(format)) + 1]]]

\* AlgorithmEncoder.encode(logic, format): [exc, vec]
AlgorithmEncoder_encode(logic, format) ==
    IF Len(format) = 0 THEN [exc |-> "ZeroDivisionError", vec |-> <<>>]
    ELSE [exc |-> "", vec |-> [i \in 1..4 |-> format[((i - 1) % Len(format)) + 1]]]

\* BinaryEncodingProcessor._calculate_binary_checksum(vector).is_valid
calculate_binary_checksum(vector) == PySum(vector) % 2 = 0

\* BinaryEncodingProcessor._compute_cross_validation_matrix
compute_cross_validation_matrix(data_checksum, algorithm_checksum) ==
    LET corruption_detected == ~(data_checksum /\ algorithm_checksum)
    IN  [corruption_detected |-> corruption_detected,
         validation_score |-> IF ~corruption_detected THEN 900 ELSE 200]

\* BinaryEncodingProcessor._reconstruct_from_pattern_redundancy
reconstruct_from_pattern_redundancy(corrupted_vector) ==
    IF corrupted_vector = <<>> THEN <<>>
    ELSE [corrupted_vector EXCEPT ![1] = 1 - corrupted_vector[1]]

\* BinaryEncodingProcessor._initiate_self_recovery_protocol
initiate_self_recovery_protocol(corrupted_data, corrupted_algorithm) ==
    [type |-> "RecoveryResult",
     recovered_data_vector |-> reconstruct_from_pattern_redundancy(corrupted_data),
     recovered_algorithm_vector |-> reconstruct_from_pattern_redundancy(corrupted_algorithm),
     recovery_confidence |-> 950]

\* validate_encoding_integrity asking the data checksum alone
validate_encoding_integrity_DataOnly(data_vector, algorithm_vector) ==
    LET data_checksum == calculate_binary_checksum(data_vector)
        algorithm_checksum == calculate_binary_checksum(algorithm_vector)
        integrity_matrix == compute_cross_validation_matrix(data_checksum, data_checksum)
    IN  IF integrity_matrix.corruption_detected
        THEN initiate_self_recovery_protocol(data_vector, algorithm_vector)
        ELSE [type |-> "ValidationResult",
              data_integrity |-> data_checksum,
              algorithm_integrity |-> algorithm_checksum,
              cross_validation_score |-> integrity_matrix.validation_score]

\* BinaryEncodingProcessor.validate_encoding_integrity(data_vector,
\* algorithm_vector), to which SelfHealingDataArchitecture's method of that
\* name hands its arguments
validate_encoding_integrity(data_vector, algorithm_vector) ==
    LET data_checksum == calculate_binary_checksum(data_vector)
        algorithm_checksum == calculate_binary_checksum(algorithm_vector)
        integrity_matrix == compute_cross_validation_matrix(data_checksum, algorithm_checksum)
    IN  IF integrity_matrix.corruption_detected
        THEN initiate_self_recovery_protocol(data_vector, algorithm_vector)
        ELSE [type |-> "ValidationResult",
              data_integrity |-> data_checksum,
              algorithm_integrity |-> algorithm_checksum,
              cross_validation_score |-> integrity_matrix.validation_score]

\* CoordinateSystemMapper
map_data_vector_to_x_axis(data_encoding) == PySum(data_encoding)
map_algorithm_vector_to_y_axis(algorithm_encoding) == PySum(algorithm_encoding)

\* ContextBoundValidator.validate_coordinate_context
validate_coordinate_context(x, y) == (x + y) > 0

\* ExecutionNode(x_position, y_position, context_binding)
ExecutionNode(x_position, y_position, context_binding) ==
    [x_position |-> x_position, y_position |-> y_position,
     context_binding |-> context_binding]

\* the alignment check without the context binding
validate_coordinate_alignment_NoContext(execution_node) ==
    execution_node.x_position = execution_node.y_position

\* ContextBoundExecutionEngine._validate_coordinate_alignment
validate_coordinate_alignment(execution_node) ==
    execution_node.context_binding
    /\ execution_node.x_position = execution_node.y_position

\* ContextBoundExecutionEngine._assess_coordinate_fault_tolerance
assess_coordinate_fault_tolerance(execution_node) ==
    IF execution_node.context_binding THEN 900 ELSE 100

\* ContextBoundExecutionEngine.map_execution_coordinates
map_execution_coordinates(data_encoding, algorithm_encoding) ==
    LET x_coordinate == map_data_vector_to_x_axis(data_encoding)
        y_coordinate == map_algorithm_vector_to_y_axis(algorithm_encoding)
        execution_node == ExecutionNode(x_coordinate, y_coordinate,
                              validate_coordinate_context(x_coordinate, y_coordinate))
    IN  [execution_coordinate |-> execution_node,
         data_algorithm_alignment |-> validate_coordinate_alignment(execution_node),
         fault_tolerance_capability |-> assess_coordinate_fault_tolerance(execution_node)]

\* what PatternRecognitionEngine.analyze returns, whatever the reference
PatternRecognitionEngine == [corruption_probability |-> 100, integrity_score |-> 950]

\* pattern engines a test fixture puts in the place of the shipped one: at
\* the threshold and above it
FixtureEngines ==
    { [corruption_probability |-> p, integrity_score |-> 950] : p \in {700, 900} }

\* engine.analyze(program_reference)
analyze(engine, program_reference) == engine

\* BinaryReconstructionProtocol.analyze_corruption_vectors
analyze_corruption_vectors(corrupted_reference, corruption_indicators) ==
    [recoverable_segments |-> << 1, 0, 1, 0 >>,
     reconstruction_matrix |-> << << 1, 0 >>, << 0, 1 >> >>,
     recovery_confidence |-> 900]

\* BinaryReconstructionProtocol.reconstruct_from_patterns
reconstruct_from_patterns(segments, matrix) == segments

\* CorruptReferenceRecoverySystem._initiate_reference_recovery
initiate_reference_recovery(corrupted_reference, corruption_indicators) ==
    LET binary_pattern_analysis ==
            analyze_corruption_vectors(corrupted_reference, corruption_indicators)
        recovered_reference ==
            reconstruct_from_patterns(binary_pattern_analysis.recoverable_segments,
                                      binary_pattern_analysis.reconstruction_matrix)
    IN  [type |-> "RecoveredReferenceResult",
         recovered_program_reference |-> recovered_reference,
         recovery_confidence |-> binary_pattern_analysis.recovery_confidence,
         validation_required |-> FALSE]

\* detect_corruption_signatures escalating at the threshold too
detect_corruption_signatures_AtThreshold(self, program_reference) ==
    LET corruption_indicators == analyze(self.pattern_recognition_engine, program_reference)
    IN  IF corruption_indicators.corruption_probability >= CORRUPTION_THRESHOLD
        THEN initiate_reference_recovery(program_reference, corruption_indicators)
        ELSE [type |-> "CorruptionAnalysisResult",
              corruption_detected |-> FALSE,
              integrity_score |-> corruption_indicators.integrity_score,
              reference_validity |-> TRUE]

\* CorruptReferenceRecoverySystem.detect_corruption_signatures, to which
\* SelfHealingDataArchitecture.detect_and_recover_corruption hands its argument
detect_corruption_signatures(self, program_reference) ==
    LET corruption_indicators == analyze(self.pattern_recognition_engine, program_reference)
    IN  IF corruption_indicators.corruption_probability > CORRUPTION_THRESHOLD
        THEN initiate_reference_recovery(program_reference, corruption_indicators)
        ELSE [type |-> "CorruptionAnalysisResult",
              corruption_detected |-> FALSE,
              integrity_score |-> corruption_indicators.integrity_score,
              reference_validity |-> TRUE]

\* SelfHealingDataArchitecture(encoding_matrix): recovery_threshold 0.95
SelfHealingDataArchitecture(encoding_matrix) ==
    [encoding_matrix |-> encoding_matrix,
     recovery_threshold |-> 950,
     pattern_recognition_engine |-> PatternRecognitionEngine]

\* FaultTolerantDataStructure(primary_vector, secondary_vector, recovery_capability)
FaultTolerantDataStructure(primary_vector, secondary_vector, recovery_capability) ==
    [primary_vector |-> primary_vector, secondary_vector |-> secondary_vector,
     recovery_capability |-> recovery_capability]

\* FaultTolerantAlgorithmStructure(execution_encoding, context_encoding,
\* xy_coordinate_mapping)
FaultTolerantAlgorithmStructure(execution_encoding, context_encoding, xy_coordinate_mapping) ==
    [execution_encoding |-> execution_encoding, context_encoding |-> context_encoding,
     xy_coordinate_mapping |-> xy_coordinate_mapping]

\* no structure built yet
NoStructure == [primary_vector |-> <<>>, execution_encoding |-> <<>>, built |-> FALSE]

\* SelfHealingDataArchitecture._calculate_recovery_probability, in thousandths
calculate_recovery_probability(primary_vector, secondary_vector) ==
    LET matches == Cardinality({ i \in 1..Min(Len(primary_vector), Len(secondary_vector)) :
                                    primary_vector[i] = secondary_vector[i] })
        total == Max(Len(primary_vector), Len(secondary_vector))
    IN  IF total > 0 THEN (matches * 1000) \div total ELSE 0

\* SelfHealingDataArchitecture._generate_xy_coordinate_system
generate_xy_coordinate_system(execution_vector, context_vector) ==
    map_execution_coordinates(execution_vector, context_vector)

\* SelfHealingDataArchitecture.process_data_model_encoding(raw_data)
process_data_model_encoding(self, raw_data) ==
    LET primary_encoding == DataModelEncoder_encode(raw_data, FormatPrimary).vec
        secondary_encoding == DataModelEncoder_encode(raw_data, FormatSecondary).vec
        recovery_prob == calculate_recovery_probability(primary_encoding, secondary_encoding)
    IN  FaultTolerantDataStructure(primary_encoding, secondary_encoding, recovery_prob)

\* SelfHealingDataArchitecture.process_algorithm_encoding(algorithm_logic)
process_algorithm_encoding(self, algorithm_logic) ==
    LET execution_vector == AlgorithmEncoder_encode(algorithm_logic, FormatExecution).vec
        context_vector == AlgorithmEncoder_encode(algorithm_logic, FormatContext).vec
        xy_map == generate_xy_coordinate_system(execution_vector, context_vector)
    IN  FaultTolerantAlgorithmStructure(execution_vector, context_vector, xy_map)

\* no context: the handshake raised
NoContext ==
    [data_integrity_score |-> 0, algorithm_authenticity |-> 0,
     context_bound_execution_ready |-> FALSE]

\* the handshake without its gate
execute_isomorphic_handshake_NoGate(self, data_struct, algorithm_struct) ==
    LET handshake_result == validate_compatibility(data_struct.primary_vector,
                                                   algorithm_struct.execution_encoding)
    IN  [exc |-> "", failure_vectors |-> NoVectors,
         context |-> [data_integrity_score |-> handshake_result.integrity_score,
                      algorithm_authenticity |-> handshake_result.authenticity_score,
                      context_bound_execution_ready |-> TRUE]]

\* SelfHealingDataArchitecture.execute_isomorphic_handshake: [exc, the
\* failure vectors the exception's message carries, context]
execute_isomorphic_handshake(self, data_struct, algorithm_struct) ==
    LET handshake_result == validate_compatibility(data_struct.primary_vector,
                                                   algorithm_struct.execution_encoding)
    IN  IF ~handshake_result.is_authentic
        THEN [exc |-> "AuthenticityValidationException",
              failure_vectors |-> handshake_result.failure_vectors,
              context |-> NoContext]
        ELSE [exc |-> "", failure_vectors |-> NoVectors,
              context |-> [data_integrity_score |-> handshake_result.integrity_score,
                           algorithm_authenticity |-> handshake_result.authenticity_score,
                           context_bound_execution_ready |-> TRUE]]

\* payloads and references handed to the architecture
RawData == { "d1", "d2" }
AlgorithmLogic == { "contextual pairing + redundancy check" }
ProgramReferences == { "corrupted_program_reference_data" }

\* encoding matrices the architecture is built with
EncodingMatrices == { << << 0, 1 >>, << 1, 0 >> >> }

NoArch == [op |-> "none", a |-> <<>>, b |-> <<>>, res |-> validate_compatibility(<<>>, <<>>)]

\* ------------------------- src/auraseal512/src/MVP_511v2/auraseal512.py

\* dict without the keys ks, and dict with dict[k] = v
Without(dict, ks) == [j \in DOMAIN dict \ ks |-> dict[j]]
With(dict, k, v) == [j \in DOMAIN dict \cup {k} |-> IF j = k THEN v ELSE dict[j]]

\* json.dumps(obj, ...): the text of obj, one text per value; json.loads reads
\* it back (the dicts written here hold strings, numbers, None and dicts of
\* strings, all of which JSON carries unchanged)
json_dumps(obj) == << Chunk("json", obj, <<>>, 0, 1) >>
IsJson(text) == Len(text) = 1 /\ text[1].k = "json"
json_loads(text) == text[1].s

\* base64.b64encode(b).decode(), and base64.b64decode
b64encode(b) == IF b = <<>> THEN <<>> ELSE Sym("b64", <<>>, <<b>>, 4 * ((BLen(b) + 2) \div 3))
b64decode(text) ==
    IF Len(text) = 1 /\ text[1].k = "b64" /\ text[1].off = 0
       /\ text[1].n = 4 * ((BLen(text[1].a[1]) + 2) \div 3)
    THEN text[1].a[1] ELSE <<>>

\* rsa.generate_private_key(public_exponent=65537, key_size=2048), the draw
\* being t
rsa_generate_private_key(t) == Sym("rsa", <<t>>, <<>>, 256)

\* private_key.private_bytes(PEM, PKCS8, NoEncryption()), and
\* serialization.load_pem_private_key
private_bytes(private_key) == Sym("pem", <<>>, <<private_key>>, 1704)
load_pem_private_key(pem) == pem[1].a[1]

\* private_key.sign(data, PSS, SHA256): 256 bytes, the salt being t
rsa_sign(private_key, data, t) == Sym("pss", <<t>>, <<private_key, data>>, 256)

\* private_key.public_key().verify(signature, data, PSS, SHA256) does not raise
rsa_verify(private_key, signature, data) ==
    /\ Len(signature) = 1
    /\ signature[1].k = "pss" /\ signature[1].a = <<private_key, data>>
    /\ signature[1].off = 0 /\ signature[1].n = 256

\* no file at a path
NoFile == << >>

\* the documents on disk: path and bytes
Documents == { "a.pdf", "b.pdf" }
DocumentContent(document_path) == Lit("%PDF " \o document_path)

\* a path with no file
MissingDocument == "missing.pdf"

\* datetime.utcnow().isoformat()
Timestamps == { "2025-01-01T00:00:00", "2025-01-02T00:00:00" }

\* AuraSeal512._derive_public_key
derive_public_key(private_pem, derivation_path) ==
    b64encode(sha512(Cat(private_pem, Lit(derivation_path))))

\* the object: AuraSeal512.private_key, .public_keys
Keys512(private_key, public_keys) ==
    [private_key |-> private_key, public_keys |-> public_keys]
NoKeys512 == Keys512(<<>>, <<>>)

\* the key files: private.key and public.keys.json under ~/.auraseal512/<seal_name>
KeyFiles(private_key_file, public_keys_file) ==
    [private_key |-> private_key_file, public_keys |-> public_keys_file]
NoKeyFiles == KeyFiles(NoFile, NoFile)

\* AuraSeal512._generate_2to1_keypair with _save_keys: [self, files]
generate_2to1_keypair(ts, t) ==
    LET private_key == rsa_generate_private_key(t)
        private_pem == private_bytes(private_key)
        public_keys == [pub1 |-> derive_public_key(private_pem, "vector1"),
                        pub2 |-> derive_public_key(private_pem, "vector2")]
    IN  [self |-> Keys512(private_key, public_keys),
         files |-> KeyFiles(private_pem,
                            json_dumps([pub1 |-> public_keys.pub1,
                                        pub2 |-> public_keys.pub2,
                                        seal_name |-> "default",
                                        created |-> ts,
                                        key_mapping |-> "2:1_public_to_private"]))]

\* AuraSeal512._load_keys: [self, files]
load_keys(files) ==
    LET key_data == json_loads(files.public_keys)
    IN  [self |-> Keys512(load_pem_private_key(files.private_key),
                          [pub1 |-> key_data.pub1, pub2 |-> key_data.pub2]),
         files |-> files]

\* AuraSeal512._load_or_generate_keys: [self, files]
load_or_generate_keys(files, ts, t) ==
    IF files.private_key # NoFile /\ files.public_keys # NoFile
    THEN load_keys(files)
    ELSE generate_2to1_keypair(ts, t)

\* the sealed archive: the document under its name, auraseal.metadata.json
\* and public.keys.json
Archive512(doc_name, document, metadata, public_keys) ==
    [doc_name |-> doc_name, document |-> document, metadata |-> metadata,
     public_keys |-> public_keys]
NoArchive512 == Archive512("", <<>>, <<>>, <<>>)

\* AuraSeal512._sign_metadata, the salt being t
sign_metadata(self, metadata, t) ==
    b64encode(rsa_sign(self.private_key, json_dumps(metadata), t))

\* AuraSeal512.create_document_seal(document_path): [exc, archive]
create_document_seal(self, document_path, ts, t) ==
    IF document_path \notin Documents
    THEN [exc |-> "FileNotFoundError", archive |-> NoArchive512]
    ELSE LET document_content == DocumentContent(document_path)
             seal_metadata == [document_name |-> document_path,
                               document_size |-> BLen(document_content),
                               document_hash |-> Hex(sha256(document_content)),
                               seal_timestamp |-> ts \o "Z",
                               seal_version |-> "AuraSeal512-2.1",
                               key_mapping |-> "2:1_public_private"]
             signature == sign_metadata(self, seal_metadata, t)
             fingerprints == [pub1 |-> PyTo(Hex(sha256(self.public_keys.pub1)), 16),
                              pub2 |-> PyTo(Hex(sha256(self.public_keys.pub2)), 16)]
             sealed == With(With(seal_metadata, "_auraseal_signature", signature),
                            "_public_key_fingerprints", fingerprints)
         IN  [exc |-> "",
              archive |-> Archive512(document_path, document_content,
                                     json_dumps(sealed), json_dumps(self.public_keys))]

\* what verify_document_seal returns
Verdict512(valid, error) == [valid |-> valid, error |-> error]

\* AuraSeal512.verify_document_seal(sealed_archive): [exc, out]; whatever the
\* reading of the archive raises is caught and answered valid = False
verify_document_seal(self, archive) ==
    IF archive = NoArchive512 THEN [exc |-> "FileNotFoundError", out |-> Verdict512(FALSE, "")]
    ELSE IF ~IsJson(archive.metadata) \/ ~IsJson(archive.public_keys)
    THEN [exc |-> "", out |-> Verdict512(FALSE, "Verification failed")]
    ELSE LET metadata == json_loads(archive.metadata)
             sealed_public_keys == json_loads(archive.public_keys)
             current_hash == Hex(sha256(archive.document))
         IN  IF current_hash # metadata.document_hash
             THEN [exc |-> "", out |-> Verdict512(FALSE, "Document content tampered with")]
             ELSE IF sealed_public_keys.pub1 # self.public_keys.pub1
                     \/ sealed_public_keys.pub2 # self.public_keys.pub2
             THEN [exc |-> "", out |-> Verdict512(FALSE, "Public key mismatch - seal may be forged")]
             ELSE [exc |-> "", out |-> Verdict512(TRUE, "")]

\* the last call on the AuraSeal512 object
Ret512(op, exc, out) == [op |-> op, exc |-> exc, out |-> out]
NoRet512 == Ret512("none", "", Verdict512(FALSE, ""))

\* ------------------------------ src/auraseal512/src/auraseal_mailer.py

\* at most MaxArchives archives are kept in out_dir
MaxArchives == 2

\* at most MaxRuns runs of the mailer on one document into one out_dir
MaxRuns == 11

\* os.urandom(n), the draw being t
urandom(t, n) == Sym("urandom", <<t>>, <<>>, n)

\* str(i) of a natural number
RECURSIVE PyStr(_)
PyStr(i) ==
    IF i < 10 THEN SubSeq("0123456789", i + 1, i + 1)
    ELSE PyStr(i \div 10) \o SubSeq("0123456789", (i % 10) + 1, (i % 10) + 1)

\* load_or_create_keypair(): [private, pubs, key_file, public_keys_file]
load_or_create_keypair(key_file, t) ==
    LET private == IF key_file # NoFile THEN key_file
                   ELSE Hex(sha512(urandom(t, 64)))
        pub1 == Hex(sha256(Cat(private, Lit(":vector1"))))
        pub2 == Hex(sha256(Cat(private, Lit(":vector2"))))
        pubs == [pub1 |-> pub1, pub2 |-> pub2]
    IN  [private |-> private, pubs |-> pubs,
         key_file |-> private, public_keys_file |-> json_dumps(pubs)]

\* make_signature(archive_path, metadata, private_key): the SHA-512 of the
\* archive's name, the canonical JSON of the metadata and the private key
make_signature(archive_path, metadata, private_key) ==
    Hex(sha512(Cat(Cat(Lit(archive_path), json_dumps(metadata)), private_key)))

\* the name of the archive of index next_index
ArchiveName(next_index) == ".auraseal.pub." \o PyStr(next_index) \o ".zip"

\* the archive: the file under its name, and auraseal.metadata.json (the
\* entry written last is the one read)
MailerArchive(file_name, file, metadata) ==
    [file_name |-> file_name, file |-> file, metadata |-> metadata]

\* the characters of an archive's name, in the order of their codes
PathOrder == ".0123456789abcdefghijklmnopqrstuvwxyz"
Ord(c) == CHOOSE i \in 1..Len(PathOrder) : Char(PathOrder, i) = c

\* a < b as Python compares two strings
RECURSIVE PathLess(_, _)
PathLess(a, b) ==
    IF b = "" THEN FALSE
    ELSE IF a = "" THEN TRUE
    ELSE IF Char(a, 1) # Char(b, 1) THEN Ord(Char(a, 1)) < Ord(Char(b, 1))
    ELSE PathLess(SubSeq(a, 2, Len(a)), SubSeq(b, 2, Len(b)))

\* sorted(pathlib.Path(out_dir).glob(".auraseal.pub.*.zip"))[-1].name
LastName(out_dir) ==
    CHOOSE last \in { ArchiveName(j) : j \in DOMAIN out_dir } :
        \A j \in DOMAIN out_dir : ArchiveName(j) = last \/ PathLess(ArchiveName(j), last)

\* int(cs): [ok, v], ok = FALSE when it raises ValueError
IsDigits(cs) == cs # "" /\ \A i \in 1..Len(cs) : Ord(Char(cs, i)) \in 2..11
RECURSIVE PyInt(_)
PyInt(cs) ==
    IF cs = "" THEN 0
    ELSE PyInt(SubSeq(cs, 1, Len(cs) - 1)) * 10 + (Ord(Char(cs, Len(cs))) - 2)

\* the index taken as one more than the number in the name that sorts last
NextIndex_Parsed(out_dir) ==
    IF DOMAIN out_dir = {} THEN 1
    ELSE PyInt(SplitLit(LastName(out_dir), ".")[4]) + 1

\* the index create_auraseal_archive takes: one more than the number parsed
\* from the name that sorts last, or len(existing) + 1 when the parse raises
\* (last.split(".")[2] is "pub", the name beginning with a dot)
NextIndex(out_dir) ==
    IF DOMAIN out_dir = {} THEN 1
    ELSE LET num == SplitLit(LastName(out_dir), ".")[3]
         IN  IF IsDigits(num) THEN PyInt(num) + 1
             ELSE Cardinality(DOMAIN out_dir) + 1

\* create_auraseal_archive(input_file, out_dir): [exc, index, archive,
\* key_file, public_keys_file]
create_auraseal_archive(m, input_file, ts, t) ==
    IF input_file \notin Documents
    THEN [exc |-> "AssertionError", index |-> 0, archive |-> <<>>,
          key_file |-> m.key_file, public_keys_file |-> m.public_keys_file]
    ELSE LET kp == load_or_create_keypair(m.key_file, t)
             metadata == [original_filename |-> input_file,
                          original_path |-> "/" \o input_file,
                          created_at |-> ts \o "Z",
                          author_email |-> "None",
                          recipient_email |-> "None",
                          public_keys |-> kp.pubs,
                          auraseal_version |-> "0.0.1",
                          notes |-> "v0.0.01 POC aura seal"]
             next_index == NextIndex(m.out_dir)
             archive_name == ArchiveName(next_index)
             signature == make_signature(archive_name, metadata, kp.private)
             metadata_signed ==
                 With(With(metadata, "_auraseal_signature", signature),
                      "_auraseal_private_key_fingerprint",
                      PyTo(Hex(sha256(kp.private)), 16))
         IN  [exc |-> "", index |-> next_index,
              archive |-> MailerArchive(input_file, DocumentContent(input_file),
                                        json_dumps(metadata_signed)),
              key_file |-> kp.key_file, public_keys_file |-> kp.public_keys_file]

\* verify_auraseal_archive(archive_file), the archive of index i in out_dir
verify_auraseal_archive(m, i) ==
    IF i \notin DOMAIN m.out_dir THEN FALSE
    ELSE IF ~IsJson(m.out_dir[i].metadata) THEN FALSE
    ELSE LET metadata == json_loads(m.out_dir[i].metadata)
         IN  IF "_auraseal_signature" \notin DOMAIN metadata THEN FALSE
             ELSE IF metadata["_auraseal_signature"] = <<>> THEN FALSE
             ELSE IF m.key_file = NoFile THEN FALSE
             ELSE LET private == m.key_file
                      metadata_for_sig == Without(metadata, {"_auraseal_signature"})
                      recomputed == make_signature(ArchiveName(i), metadata_for_sig, private)
                  IN  recomputed = metadata["_auraseal_signature"]

\* the last call of the mailer
MailerRet(op, index, exc, ok) == [op |-> op, index |-> index, exc |-> exc, ok |-> ok]

\* ~/.auraseal and out_dir before the first run
NoMailer ==
    [key_file |-> NoFile, public_keys_file |-> NoFile, out_dir |-> << >>,
     ret |-> MailerRet("none", 0, "", FALSE)]

\* -------------------------------- src/auraseal512/src/pyauraseal514.py

\* Optional[str] None, as an f-string prints it
PyNone == Lit("None")

\* PhenoAVLTrie.compress_data(data) on a trie whose Huffman tree was last built
\* of data: every character of data has its code of that tree, so the bit
\* string is a function of data (one code bit per character at least)
compress_data(data) == Sym("huffman", <<>>, <<data>>, BLen(data))

\* trie.compression_ratio after compress_data(data): compressed bits over
\* eight bits per character
compression_ratio(data) == Sym("compression_ratio", <<>>, <<data>>, 1)

\* PhenoAVLTrie(): the text its Huffman codes were last built of, the keys
\* inserted, the ratio of the last compression (0.0 before any)
PhenoAVLTrie == [text |-> <<>>, keys |-> {}, compression_ratio |-> <<>>]

\* the folders create_version_archive is pointed at, and the files under them
\* (the demonstration's ./sample_project does not exist)
Folders == { "./sample_project" }
FolderFiles(folder_path) == {}

\* the version_data of the caller
VersionDatas ==
    { [project_name |-> "AuraSeal514"],
      [project_name |-> "AuraSeal514", checksum |-> "abc123def456"] }

\* the last call on the PhenoAVL object
PhenoRet(op, archive, ok) == [op |-> op, archive |-> archive, ok |-> ok]

\* PhenoAVL(): archives are the .auraseal.pub.<i>.zip files of the working
\* directory, which is empty before the first call
NoPheno ==
    [trie |-> PhenoAVLTrie, public_keys |-> <<>>, private_key |-> PyNone,
     version |-> 1, archive_integrity |-> <<>>, archives |-> <<>>,
     ret |-> PhenoRet("none", 0, FALSE)]

\* PhenoAVL.generate_key_pair(), t the draw: [public_keys, private_key]
generate_key_pair(t) ==
    LET private_scalar == Hex(sha512(urandom(t, 64)))
        pub_key_1 == Hex(sha256(Cat(private_scalar, Lit(":vector1"))))
        pub_key_2 == Hex(sha256(Cat(private_scalar, Lit(":vector2"))))
    IN  [public_keys |-> << pub_key_1, pub_key_2 >>, private_key |-> private_scalar]

\* PhenoAVL.create_archive_signature(archive_path, data): [trie, signature]
create_archive_signature(self, archive_path, data) ==
    LET combined_data == json_dumps(data)
        compressed_data == compress_data(combined_data)
        signature_input ==
            Cat(Cat(Cat(Cat(Lit(archive_path), Lit(":")), compressed_data), Lit(":")),
                self.private_key)
    IN  [trie |-> [text |-> combined_data,
                   keys |-> self.trie.keys \cup DOMAIN data,
                   compression_ratio |-> compression_ratio(combined_data)],
         signature |-> Hex(sha512(signature_input))]

\* PhenoAVL.verify_archive_signature(archive_path, data, signature)
verify_archive_signature(self, archive_path, data, signature) ==
    LET combined_data == json_dumps(data)
        compressed_data == compress_data(combined_data)
        expected_sig(pub_key) ==
            Hex(sha512(Cat(Cat(Cat(Cat(Lit(archive_path), Lit(":")), compressed_data),
                               Lit(":")), pub_key)))
    IN  \E i \in DOMAIN self.public_keys :
            /\ BLen(signature) = BLen(expected_sig(self.public_keys[i]))
            /\ PyTo(signature, 16) = PyTo(expected_sig(self.public_keys[i]), 16)

\* the archive written: auraseal.metadata.json and the files of the folder
PhenoArchive(metadata, files) == [metadata |-> metadata, files |-> files]

\* PhenoAVL.create_version_archive(folder_path, version_data): the object after
\* the call; the archive's name is ArchiveName(self.version)
create_version_archive(self, folder_path, version_data) ==
    LET archive_name == ArchiveName(self.version)
        s == create_archive_signature(self, archive_name, version_data)
        signed == With(With(With(version_data, "_auraseal_signature", s.signature),
                            "_auraseal_version", self.version),
                       "_auraseal_coherence", s.trie.compression_ratio)
    IN  [self EXCEPT !.trie = s.trie,
                     !.archives = Append(@, PhenoArchive(json_dumps(signed),
                                                         FolderFiles(folder_path))),
                     !.archive_integrity = Append(@, s.signature),
                     !.version = @ + 1]

\* PhenoAVL.verify_archive_integrity(archive_path), the archive of index i
verify_archive_integrity(self, i) ==
    IF i \notin DOMAIN self.archives THEN FALSE
    ELSE IF ~IsJson(self.archives[i].metadata) THEN FALSE
    ELSE LET metadata == json_loads(self.archives[i].metadata)
         IN  IF "_auraseal_signature" \notin DOMAIN metadata THEN FALSE
             ELSE IF metadata["_auraseal_signature"] = <<>> THEN FALSE
             ELSE LET verification_data == Without(metadata, {"_auraseal_signature"})
                  IN  verify_archive_signature(self, ArchiveName(i), verification_data,
                                               metadata["_auraseal_signature"])

\* ------------------------------------- threads on one seal of src/auraseal.py

\* the threads that call into the seal
Threads == { "t1", "t2" }

\* the locals of a call: heal's comparison and candidate; verify's sig, p1,
\* p2 and vk
Locals(neq, candidate, sig, p1, p2, vk) ==
    [neq |-> neq, candidate |-> candidate, sig |-> sig, p1 |-> p1, p2 |-> p2, vk |-> vk]
NoLocals == Locals(FALSE, <<>>, <<>>, <<>>, <<>>, <<>>)

\* what a call answered: the exception raised ("" for none), verify's answer,
\* heal's vector
Answer(exc, bval, vec) == [exc |-> exc, bval |-> bval, vec |-> vec]
NoAnswer == Answer("", FALSE, <<>>)

\* a thread: where it stands (pc), the call it is in and its arguments, its
\* locals and, at pc "done", what the call answered
Thread(pc, op, arg, msg, sig, loc, res) ==
    [pc |-> pc, op |-> op, arg |-> arg, msg |-> msg, sig |-> sig, loc |-> loc, res |-> res]

\* a thread outside any call
NoThread == Thread("idle", "none", <<>>, <<>>, <<>>, NoLocals, NoAnswer)
NoThreads == [t \in Threads |-> NoThread]

\* the thread returns res from its call
Return(th, res) == [th EXCEPT !.pc = "done", !.loc = NoLocals, !.res = res]

\* ------------------- the PhenoAVLTrie of pyauraseal514.py, node by node

\* a left or right that is None, and a root before the first insert
NoNode == [none |-> TRUE]

\* PhenoAVLNode._calculate_checksum()
calculate_checksum(key, huffman_code, frequency) ==
    PyTo(Hex(sha256(Cat(Cat(Cat(Cat(Lit(key), Lit(":")), Lit(huffman_code)), Lit(":")),
                        Lit(PyStr(frequency))))), 16)

\* PhenoAVLNode(key, huffman_code, freq)
PhenoAVLNode(key, huffman_code, freq) ==
    [key |-> key, huffman_code |-> huffman_code, frequency |-> freq, height |-> 1,
     balance_factor |-> 0, left |-> NoNode, right |-> NoNode,
     checksum |-> calculate_checksum(key, huffman_code, freq)]

\* node.update_checksum()
update_checksum(node) ==
    [node EXCEPT !.checksum = calculate_checksum(node.key, node.huffman_code,
                                                 node.frequency)]

\* PhenoAVLTrie._get_height(node)
get_height(node) == IF node = NoNode THEN 0 ELSE node.height

\* PhenoAVLTrie._get_balance(node)
get_balance(node) ==
    IF node = NoNode THEN 0 ELSE get_height(node.left) - get_height(node.right)

\* max(a, b) of two heights
PyMax(a, b) == IF a >= b THEN a ELSE b

\* PhenoAVLTrie._update_height(node)
update_height(node) ==
    IF node = NoNode THEN node
    ELSE LET h == 1 + PyMax(get_height(node.left), get_height(node.right))
         IN  [node EXCEPT !.height = h,
                          !.balance_factor = get_height(node.left) - get_height(node.right)]

\* PhenoAVLTrie._rotate_right(y): the node returned, y under it
rotate_right(y) ==
    LET x == y.left
        t2 == x.right
        y2 == update_height([y EXCEPT !.left = t2])
    IN  update_height([x EXCEPT !.right = y2])

\* PhenoAVLTrie._rotate_left(x): the node returned, x under it
rotate_left(x) ==
    LET y == x.right
        t2 == y.left
        x2 == update_height([x EXCEPT !.right = t2])
    IN  update_height([y EXCEPT !.left = x2])

\* a rebalancing that never rotates the child first
Rebalance_SingleRotation(node, key) ==
    LET balance == get_balance(node)
    IN  IF balance > 1 THEN rotate_right(node)
        ELSE IF balance < -1 THEN rotate_left(node)
        ELSE node

\* the rebalancing of insert_recursive, node having its height updated
Rebalance(node, key) ==
    LET balance == get_balance(node)
    IN  IF balance > 1
        THEN rotate_right(IF PathLess(node.left.key, key)
                          THEN [node EXCEPT !.left = rotate_left(node.left)]
                          ELSE node)
        ELSE IF balance < -1
        THEN rotate_left(IF PathLess(key, node.right.key)
                         THEN [node EXCEPT !.right = rotate_right(node.right)]
                         ELSE node)
        ELSE node

\* insert_recursive(node, key, huffman_code, freq) of PhenoAVLTrie.insert
RECURSIVE insert_recursive(_, _, _, _)
insert_recursive(node, key, huffman_code, freq) ==
    IF node = NoNode THEN PhenoAVLNode(key, huffman_code, freq)
    ELSE IF key = node.key
    THEN update_checksum([node EXCEPT !.frequency = @ + freq])
    ELSE LET grown ==
                 IF PathLess(key, node.key)
                 THEN [node EXCEPT !.left = insert_recursive(node.left, key, huffman_code,
                                                             freq)]
                 ELSE [node EXCEPT !.right = insert_recursive(node.right, key,
                                                              huffman_code, freq)]
         IN  update_checksum(Rebalance(update_height(grown), key))

\* self.huffman_codes.get(key, "")
CodeOf(huffman_codes, key) ==
    IF key \in DOMAIN huffman_codes THEN huffman_codes[key] ELSE ""

\* PhenoAVLTrie.insert(key, freq): the trie after the call
insert(self, key, freq) ==
    [self EXCEPT !.root = insert_recursive(self.root, key,
                                           CodeOf(self.huffman_codes, key), freq)]

\* verify_recursive(node) of PhenoAVLTrie.verify_integrity
RECURSIVE verify_recursive(_)
verify_recursive(node) ==
    IF node = NoNode THEN TRUE
    ELSE IF node.checksum # calculate_checksum(node.key, node.huffman_code, node.frequency)
    THEN FALSE
    ELSE IF node.balance_factor > 1 \/ node.balance_factor < -1 THEN FALSE
    ELSE verify_recursive(node.left) /\ verify_recursive(node.right)

\* PhenoAVLTrie.verify_integrity()
verify_integrity(self) == verify_recursive(self.root)

\* the texts build_huffman_tree is given, and the codes _generate_codes reads
\* off the tree built of each: one character has the code "0"; of "ab" the
\* heap pops a then b; of "abcc" it pops a and b, merges them, then pops c
\* (count 2) before the merged node (count 2, pushed later)
Texts == { "", "ab" }
GeneratedCodes(text) ==
    IF text = "a" THEN [k \in {"a"} |-> "0"]
    ELSE IF text = "ab" THEN [k \in {"a", "b"} |-> IF k = "a" THEN "0" ELSE "1"]
    ELSE IF text = "abcc"
    THEN [k \in {"a", "b", "c"} |-> IF k = "c" THEN "0" ELSE IF k = "a" THEN "10" ELSE "11"]
    ELSE <<>>

\* PhenoAVLTrie.build_huffman_tree(text): the trie after the call; the codes
\* of an earlier text stay in huffman_codes unless the new tree has the key
build_huffman_tree(self, text) ==
    IF text = "" THEN self
    ELSE LET codes == GeneratedCodes(text)
         IN  [self EXCEPT !.huffman_tree = text,
                          !.huffman_codes =
                              [k \in DOMAIN @ \cup DOMAIN codes |->
                                  IF k \in DOMAIN codes THEN codes[k] ELSE @[k]]]

\* the keys of the inserts, their freq (the default), and how many inserts one
\* trie takes
TrieKeys == { "a", "b", "c", "d", "e" }
Freqs == { 1 }
MaxInserts == 6

\* the last call on the trie
TrieRet(op, key, ok) == [op |-> op, key |-> key, ok |-> ok]

\* PhenoAVLTrie(): huffman_tree is the text the tree was built of
NoTrie ==
    [root |-> NoNode, huffman_tree |-> "", huffman_codes |-> <<>>, inserts |-> 0,
     ret |-> TrieRet("none", "", FALSE)]

\* ------------- src/wsys_3x3_polar_gate: the sparse dynamic consensus switch

\* the values of SparseState; OO, the 00-veto, is an alias of the initial e0000
SparseState_OO == 0
SparseStates == { 0, 14, 15, 8, 7 }

\* the bytes of an input_stream, resp. the numbers of an input_ast: 0x00, 0x11,
\* 0x1E and 0x45, the letter E
StreamBytes == { 0, 17, 30, 69 }
MaxStream == 2
RECURSIVE SeqsUpTo(_, _)
SeqsUpTo(S, n) ==
    IF n = 0 THEN { <<>> }
    ELSE LET shorter == SeqsUpTo(S, n - 1)
         IN  shorter \cup { Append(q, x) : q \in { r \in shorter : Len(r) = n - 1 }, x \in S }
Streams == SeqsUpTo(StreamBytes, MaxStream)

\* input_stream.startswith(b"EE")
StartsWithEE(input_stream) ==
    Len(input_stream) >= 2 /\ input_stream[1] = 69 /\ input_stream[2] = 69

\* the pairs (a & 0x0F, b & 0x0F) that pass
PassingPairs == { <<0, 0>>, <<1, 1>>, <<14, 14>> }

\* PolicySwitch.check_coherence_pairs(stream): zip drops a last byte that has
\* no partner
check_coherence_pairs(stream) ==
    \A i \in 1..(Len(stream) \div 2) :
        << stream[2 * i - 1] % 16, stream[2 * i] % 16 >> \in PassingPairs

\* a derive that asks the veto before the override
derive_VetoFirst(self, input_stream) ==
    IF self.epsilon = SparseState_OO THEN "REJECT"
    ELSE IF StartsWithEE(input_stream) THEN "CONNECT"
    ELSE IF check_coherence_pairs(input_stream) THEN "EXECUTE"
    ELSE "SWITCH"

\* PolicySwitch.derive(input_stream)
derive(self, input_stream) ==
    IF StartsWithEE(input_stream) THEN "CONNECT"
    ELSE IF self.epsilon = SparseState_OO THEN "REJECT"
    ELSE IF check_coherence_pairs(input_stream) THEN "EXECUTE"
    ELSE "SWITCH"

\* SparseSwitch.check_pairs(ast_tree), nums the numbers of the tree in walk
\* order: a last number without a partner is paired with 0
check_pairs(nums) ==
    \A i \in 1..((Len(nums) + 1) \div 2) :
        << nums[2 * i - 1] % 16, IF 2 * i <= Len(nums) THEN nums[2 * i] % 16 ELSE 0 >>
            \in PassingPairs

\* the override of SparseSwitch.derive: None, "EE" or another string
Overrides == { "None", "EE", "OO" }

\* SparseSwitch.derive(input_ast, override)
sparse_derive(self, nums, override) ==
    IF override = "EE" THEN "CONNECT"
    ELSE IF self.epsilon = 0 THEN "REJECT"
    ELSE IF check_pairs(nums) THEN "EXECUTE"
    ELSE "SWITCH"

\* the last derive: the class, the input, the override argument, epsilon at
\* the call and the policy returned
SwitchRet(cls, input, override, epsilon, policy) ==
    [cls |-> cls, input |-> input, override |-> override, epsilon |-> epsilon,
     policy |-> policy]

\* PolicySwitch() and SparseSwitch()
NoSwitch ==
    [policy_switch |-> [epsilon |-> SparseState_OO], sparse_switch |-> [epsilon |-> 0],
     ret |-> SwitchRet("none", <<>>, "None", 0, "none")]

\* ------------------- src/consciousness/src: conscionss_state.py, enhanced.py

\* SensorType
Sensors ==
    { "VISUAL", "AUDITORY", "TACTILE", "OLFACTORY", "GUSTATORY", "PROPRIOCEPTIVE",
      "VESTIBULAR" }

\* the progress values of the callers, in thousandths: 0.5 and 1.0
Progresses == { 500, 1000 }

\* SensorStatus() of conscionss_state.py and of enhanced.py; timestamps are
\* left out, nothing reads them
SensorStatus == [initialized |-> FALSE, initialization_progress |-> 0]
EnhancedSensorStatus ==
    [initialized |-> FALSE, initialization_progress |-> 0, override_active |-> TRUE]

\* ConsciousnessState of conscionss_state.py
UNCONSCIOUS == 0
TRANSITIONAL == 1
CONSCIOUS == 2

\* ConsciousnessState and DimensionalState of enhanced.py
E_PRECONSCIOUS == 0
E_UNCONSCIOUS == 1
E_TRANSITIONAL == 2
E_CONSCIOUS == 3
ZERO_D == 0
ONE_D == 1
TWO_D == 2
THREE_D == 3

\* CircuitBreaker(), the same class in both files; last_failure_time is read
\* against the clock only, and the clock is an input of allow_operation
failure_threshold == 3
CircuitBreaker == [failure_count |-> 0, state |-> "CLOSED"]

\* CircuitBreaker.allow_operation(), elapsed telling whether more than
\* reset_timeout seconds passed since the last failure: [self, allowed]
allow_operation(self, elapsed) ==
    LET after == IF self.state = "OPEN" /\ elapsed THEN [self EXCEPT !.state = "HALF-OPEN"]
                 ELSE self
    IN  [self |-> after, allowed |-> after.state # "OPEN"]

\* CircuitBreaker.record_success()
record_success(self) ==
    [failure_count |-> 0,
     state |-> IF self.state = "HALF-OPEN" THEN "CLOSED" ELSE self.state]

\* CircuitBreaker.record_failure()
record_failure(self) ==
    [failure_count |-> self.failure_count + 1,
     state |-> IF self.failure_count + 1 >= failure_threshold THEN "OPEN" ELSE self.state]

\* ProtectiveBarrier() of conscionss_state.py, integrity in thousandths; 250
\* subtractions of 0.001 from 1.0 give 0.7499999999999998 in floating point and
\* 0.750 here, and neither is above the threshold
integrity_threshold == 750
degradation == 1
ProtectiveBarrier == [integrity |-> 1000]

\* a validate_integrity that repairs a barrier it finds at the threshold by
\* 0.1, the default amount of ProtectiveBarrier.repair
validate_integrity_Repairing(self) ==
    LET after == [self EXCEPT !.integrity = @ - degradation]
    IN  IF after.integrity > integrity_threshold THEN [self |-> after, valid |-> TRUE]
        ELSE [self |-> [integrity |-> after.integrity + 100], valid |-> FALSE]

\* ProtectiveBarrier.validate_integrity(): [self, valid]
validate_integrity(self) ==
    LET after == [self EXCEPT !.integrity = @ - degradation]
    IN  [self |-> after, valid |-> after.integrity > integrity_threshold]

\* ConsciousnessSystem._validate_system_integrity() of conscionss_state.py,
\* heartbeat telling whether the heartbeat thread wrote within three intervals,
\* and `and` stopping at the first failure: [self, valid]
validate_system_integrity(self, heartbeat, elapsed) ==
    IF ~heartbeat THEN [self |-> self, valid |-> FALSE]
    ELSE LET b == validate_integrity(self.protective_barrier)
             walled == [self EXCEPT !.protective_barrier = b.self]
         IN  IF ~b.valid THEN [self |-> walled, valid |-> FALSE]
             ELSE LET c == allow_operation(self.circuit_breaker, elapsed)
                  IN  [self |-> [walled EXCEPT !.circuit_breaker = c.self],
                       valid |-> c.allowed]

\* the queries of the callers: intent, parameters (a domain that is a list is
\* not hashable; specificity in thousandths), and whether the pattern attached
\* is valid when the field looks at it
Unhashable == "[]"
Query(intent, parameters, authenticated) ==
    [intent |-> intent, parameters |-> parameters, authenticated |-> authenticated]
Queries ==
    { Query("RETRIEVE", [domain |-> "physics", specificity |-> 800], TRUE),
      Query("RETRIEVE", [domain |-> Unhashable, specificity |-> 800], TRUE),
      Query("RETRIEVE", [domain |-> "physics", specificity |-> 800], FALSE),
      Query("ANALYZE", [domain |-> "physics", specificity |-> 800], TRUE),
      Query("RETRIEVE", [domain |-> "physics"], TRUE) }

\* QueryValidator.validate_query_structure(query)
validate_query_structure(query) ==
    /\ query.intent \in { "RETRIEVE", "ANALYZE", "SYNTHESIZE" }
    /\ { "domain", "specificity" } \subseteq DOMAIN query.parameters
    /\ 0 <= query.parameters.specificity /\ query.parameters.specificity <= 1000

\* InformationField.data
FieldData ==
    [physics |-> << "relativity", "quantum mechanics", "thermodynamics" >>,
     biology |-> << "genetics", "cellular processes", "evolution" >>,
     philosophy |-> << "metaphysics", "ethics", "epistemology" >>,
     mathematics |-> << "algebra", "calculus", "geometry" >>]

\* ConsciousnessSystem.get_information_field_access_level()
get_information_field_access_level(self) ==
    IF self.state = UNCONSCIOUS THEN "FULL"
    ELSE IF self.state = TRANSITIONAL THEN "PARTIAL"
    ELSE "NONE"

\* InformationField.query(query, access_level): [raised, value]
field_query(query, access_level) ==
    IF ~query.authenticated
    THEN [raised |-> FALSE, value |-> [error |-> "Query not authenticated"]]
    ELSE IF query.intent = "RETRIEVE"
    THEN IF query.parameters.domain = Unhashable
         THEN [raised |-> TRUE, value |-> [error |-> "Query failed: unhashable type"]]
         ELSE IF query.parameters.domain \notin DOMAIN FieldData
         THEN [raised |-> FALSE, value |-> [error |-> "Domain not found"]]
         ELSE IF access_level = "FULL"
         THEN [raised |-> FALSE, value |-> [result |-> FieldData[query.parameters.domain]]]
         ELSE IF access_level = "PARTIAL"
         THEN [raised |-> FALSE,
               value |-> [result |-> SubSeq(FieldData[query.parameters.domain], 1, 1)]]
         ELSE [raised |-> FALSE,
               value |-> [error |-> "Access denied due to consciousness state restrictions"]]
    ELSE [raised |-> FALSE, value |-> [error |-> "Unsupported query intent"]]

\* ConsciousnessSystem.query_information_field(query) of conscionss_state.py:
\* [self, value]
query_information_field(self, query, heartbeat, elapsed) ==
    LET v == validate_system_integrity(self, heartbeat, elapsed)
    IN  IF ~v.valid
        THEN [self |-> v.self, value |-> [error |-> "System integrity check failed"]]
        ELSE IF ~validate_query_structure(query)
        THEN [self |-> v.self, value |-> [error |-> "Invalid query structure"]]
        ELSE LET r == field_query(query, get_information_field_access_level(v.self))
             IN  [self |-> [v.self EXCEPT !.circuit_breaker =
                                IF r.raised THEN record_failure(@) ELSE record_success(@)],
                  value |-> r.value]

\* sum(1 for s in self.sensors.values() if s.initialized)
initialized_count(self) == Cardinality({ t \in Sensors : self.sensors[t].initialized })

\* ConsciousnessSystem._update_state() of conscionss_state.py
update_state(self) ==
    LET total_sensors == Cardinality(Sensors)
        new_state == IF initialized_count(self) = 0 THEN UNCONSCIOUS
                     ELSE IF initialized_count(self) < total_sensors THEN TRANSITIONAL
                     ELSE CONSCIOUS
    IN  IF new_state > self.state THEN [self EXCEPT !.state = new_state] ELSE self

\* an update that takes the sensor's progress for its initialization and the
\* state for what the sensors say now
update_sensory_initialization_Recomputed(self, sensor_type, progress) ==
    LET t == [initialized |-> progress >= 1000, initialization_progress |-> progress]
        sensed == [self EXCEPT !.sensors[sensor_type] = t]
    IN  [sensed EXCEPT !.state = IF initialized_count(sensed) = 0 THEN UNCONSCIOUS
                                 ELSE IF initialized_count(sensed) < Cardinality(Sensors)
                                 THEN TRANSITIONAL
                                 ELSE CONSCIOUS]

\* ConsciousnessSystem.update_sensory_initialization(sensor_type, progress) of
\* conscionss_state.py
update_sensory_initialization(self, sensor_type, progress) ==
    LET s == self.sensors[sensor_type]
        t == [initialized |-> s.initialized \/ progress >= 1000,
              initialization_progress |-> progress]
    IN  update_state([self EXCEPT !.sensors[sensor_type] = t])

\* the last call on the system
SystemRet(op, value) == [op |-> op, value |-> value]

\* no system constructed yet
NoSystem == [module |-> "none", ret |-> SystemRet("none", <<>>)]

\* ConsciousnessSystem() of conscionss_state.py; the heartbeat verifier is its
\* thread and the clock, an input of the calls that ask it; calls counts the
\* updates made
ConsciousnessSystem ==
    [module |-> "conscionss_state", state |-> UNCONSCIOUS,
     sensors |-> [t \in Sensors |-> SensorStatus],
     protective_barrier |-> ProtectiveBarrier, circuit_breaker |-> CircuitBreaker,
     calls |-> 0, ret |-> SystemRet("__init__", <<>>)]

\* TemporalCycle() of enhanced.py, adaptation_factor in thousandths; the
\* timestamps are read against the clock only
TemporalCycle == [current_phase |-> "ACTIVE", cycle_count |-> 0, adaptation_factor |-> 1000]

\* TemporalCycle._transition_phase()
transition_phase(self) ==
    LET count == IF self.current_phase = "ACTIVE" THEN self.cycle_count
                 ELSE self.cycle_count + 1
    IN  [current_phase |-> IF self.current_phase = "ACTIVE" THEN "DORMANT" ELSE "ACTIVE",
         cycle_count |-> count,
         adaptation_factor |-> IF count < 5 THEN 700 ELSE IF count < 10 THEN 850 ELSE 1000]

\* TemporalCycle.should_transition(), due telling whether the effective
\* duration has passed since the last transition: [self, result]
should_transition(self, due) ==
    IF due THEN [self |-> transition_phase(self), result |-> TRUE]
    ELSE [self |-> self, result |-> FALSE]

\* ProtectiveBarrier() of enhanced.py, integrity and formation_progress in
\* thousandths
EnhancedProtectiveBarrier == [integrity |-> 1000, formation_progress |-> 0]

\* ProtectiveBarrier.repair() of enhanced.py, amount None: repair_rate is 0.01
repair(self) ==
    [self EXCEPT !.integrity = IF @ + 10 > 1000 THEN 1000 ELSE @ + 10]

\* ProtectiveBarrier.update_formation_progress(dimensional_state,
\* consciousness_state): 0.6 * dim / 3 + 0.4 * con / 3
update_formation_progress(self, dimensional_state, consciousness_state) ==
    [self EXCEPT !.formation_progress =
        (600 * dimensional_state) \div THREE_D + (400 * consciousness_state) \div E_CONSCIOUS]

\* ProtectiveBarrier.get_sensory_override_capacity()
get_sensory_override_capacity(self) ==
    IF 1000 - self.formation_progress < 0 THEN 0 ELSE 1000 - self.formation_progress

\* WaveInteraction(dimensional_state): its other fields are functions of the
\* dimensional state
WaveInteraction(dimensional_state) == [dimensional_state |-> dimensional_state]

\* ConsciousnessSystem() of enhanced.py. The waves of the information field
\* are left out: update_waves writes active_waves only, and only the field's
\* query reads them
EnhancedConsciousnessSystem ==
    [module |-> "enhanced", consciousness_state |-> E_PRECONSCIOUS,
     dimensional_state |-> ZERO_D,
     sensors |-> [t \in Sensors |-> EnhancedSensorStatus],
     protective_barrier |-> EnhancedProtectiveBarrier,
     circuit_breaker |-> CircuitBreaker, temporal_cycle |-> TemporalCycle,
     wave_interaction |-> WaveInteraction(ZERO_D), sensory_override_capacity |-> 1000,
     calls |-> 0, ret |-> SystemRet("__init__", <<>>)]

\* ConsciousnessSystem._transition_to_dimensional_state(new_state)
transition_to_dimensional_state(self, new_state) ==
    IF new_state > self.dimensional_state
    THEN [self EXCEPT !.dimensional_state = new_state,
                      !.wave_interaction = WaveInteraction(new_state)]
    ELSE self

\* ConsciousnessSystem._transition_to_consciousness_state(new_state)
transition_to_consciousness_state(self, new_state) ==
    IF new_state > self.consciousness_state
    THEN [self EXCEPT !.consciousness_state = new_state]
    ELSE self

\* ConsciousnessSystem._handle_dormant_state()
handle_dormant_state(self) ==
    LET repaired == [self EXCEPT !.protective_barrier = repair(@)]
    IN  IF self.dimensional_state = ZERO_D /\ self.consciousness_state = E_PRECONSCIOUS
        THEN transition_to_consciousness_state(
                 transition_to_dimensional_state(repaired, ONE_D), E_UNCONSCIOUS)
        ELSE repaired

\* ConsciousnessSystem._handle_active_state(), developed telling whether more
\* than 300 seconds passed since construction
handle_active_state(self, developed) ==
    IF self.dimensional_state = ONE_D /\ developed
       /\ self.consciousness_state = E_UNCONSCIOUS
    THEN transition_to_consciousness_state(
             transition_to_dimensional_state(self, TWO_D), E_TRANSITIONAL)
    ELSE self

\* ConsciousnessSystem.update() of enhanced.py; late tells whether more than
\* five seconds passed since construction
enhanced_update(self, due, late, developed) ==
    LET st == should_transition(self.temporal_cycle, due)
        cycled == [self EXCEPT !.temporal_cycle = st.self]
    IN  IF st.result \/ (self.consciousness_state = E_PRECONSCIOUS /\ late)
        THEN LET handled == IF cycled.temporal_cycle.current_phase # "ACTIVE"
                            THEN handle_dormant_state(cycled)
                            ELSE handle_active_state(cycled, developed)
                 formed == [handled EXCEPT !.protective_barrier =
                               update_formation_progress(@, handled.dimensional_state,
                                                         handled.consciousness_state)]
             IN  [formed EXCEPT
                     !.sensory_override_capacity =
                         get_sensory_override_capacity(formed.protective_barrier),
                     !.wave_interaction = WaveInteraction(formed.dimensional_state)]
        ELSE cycled

\* ConsciousnessSystem._update_state_from_sensors() of enhanced.py
update_state_from_sensors(self) ==
    LET total_sensors == Cardinality(Sensors)
        visual_initialized == self.sensors["VISUAL"].initialized
    IN  IF initialized_count(self) * 100 >= 95 * total_sensors /\ visual_initialized
        THEN transition_to_consciousness_state(
                 transition_to_dimensional_state(self, THREE_D), E_CONSCIOUS)
        ELSE IF initialized_count(self) * 2 >= total_sensors /\ visual_initialized
        THEN transition_to_consciousness_state(self, E_TRANSITIONAL)
        ELSE self

\* ConsciousnessSystem.update_sensory_initialization(sensor_type, progress) of
\* enhanced.py
enhanced_update_sensory_initialization(self, sensor_type, progress) ==
    LET s == self.sensors[sensor_type]
        t == IF progress >= 1000
             THEN [initialized |-> TRUE, initialization_progress |-> progress,
                   override_active |-> self.sensory_override_capacity > 300]
             ELSE [s EXCEPT !.initialization_progress = progress]
    IN  update_state_from_sensors([self EXCEPT !.sensors[sensor_type] = t])

\* ----------------------------------------------------------------- actions

Init ==
    /\ seal = NoSeal
    /\ wire = NoWire
    /\ ret = NoRet
    /\ peer = NoSeal
    /\ arch = NoArch
    /\ sha \in { SelfHealingDataArchitecture(m) : m \in EncodingMatrices }
    /\ data_structure = NoStructure
    /\ algorithm_structure = NoStructure
    /\ auraseal512 = [self |-> NoKeys512, files |-> NoKeyFiles, archive |-> NoArchive512,
                      ret |-> NoRet512]
    /\ mailer = NoMailer
    /\ pheno = NoPheno
    /\ trie = NoTrie
    /\ switch = NoSwitch
    /\ system = NoSystem
    /\ threads = NoThreads

\* seal = AuraSeal.birth(entropy) of src/auraseal.py
Birth ==
    \E entropy \in Entropies, t \in Tokens, u \in Tokens :
        /\ seal' = birth(entropy, t, u)
        /\ wire' = NoWire
        /\ ret' = Ret("AuraSeal", "birth", entropy, <<>>, <<>>, "", FALSE, <<>>,
                      IF ret.op = "birth" /\ ret.impl = "AuraSeal"
                      THEN Born(ret.arg, seal.priv, seal.pub1, seal.pub2)
                      ELSE NoBorn)
        /\ UNCHANGED notSeal

\* aura = AuraSeal.birth() of auraseal_minimal.py
MBirth ==
    \E t \in Tokens :
        /\ seal' = mbirth(t)
        /\ wire' = NoWire
        /\ ret' = Ret("Minimal", "birth", <<>>, <<>>, <<>>, "", FALSE, <<>>, NoBorn)
        /\ UNCHANGED notSeal

\* one of the two public vectors of the object is overwritten: the corruption
\* heal is written against ("If one public vector is corrupted", "Both
\* vectors corrupted"); the fields of the dataclass are assignable
Corrupt ==
    /\ seal.impl = "AuraSeal"
    /\ \/ seal.pub1 # Garbage /\ seal' = [seal EXCEPT !.pub1 = Garbage]
       \/ seal.pub2 # Garbage /\ seal' = [seal EXCEPT !.pub2 = Garbage]
    /\ ret' = Ret("AuraSeal", "corrupt", <<>>, <<>>, <<>>, "", FALSE, <<>>, NoBorn)
    /\ UNCHANGED << wire, notSeal >>

\* heal storing the vector it returns over pub2
Heal_Repairing ==
    /\ seal.impl = "AuraSeal"
    /\ \E damaged_pub \in { seal.pub1, seal.pub2, Garbage, Garbage2 } :
           LET r == heal(seal, damaged_pub)
           IN  /\ ret' = Ret("AuraSeal", "heal", damaged_pub, <<>>, <<>>, r.exc, FALSE, r.vec,
                             NoBorn)
               /\ seal' = IF r.exc = "" THEN [seal EXCEPT !.pub2 = r.vec] ELSE seal
    /\ UNCHANGED << wire, notSeal >>

\* seal.heal(damaged_pub)
Heal ==
    /\ seal.impl = "AuraSeal"
    /\ \E damaged_pub \in { seal.pub1, seal.pub2, Garbage, Garbage2 } :
           LET r == heal(seal, damaged_pub)
           IN  ret' = Ret("AuraSeal", "heal", damaged_pub, <<>>, <<>>, r.exc, FALSE, r.vec, NoBorn)
    /\ UNCHANGED << seal, wire, notSeal >>

\* sig = seal.sign(msg)
Sign ==
    /\ seal.impl = "AuraSeal"
    /\ \E msg \in Msgs, t \in Tokens :
           LET r == sign(seal, msg, t)
           IN  /\ ret' = Ret("AuraSeal", "sign", <<>>, msg, r.vec, r.exc, FALSE, <<>>, NoBorn)
               /\ wire' = IF r.exc = "" THEN [sig |-> r.vec, msg |-> msg] ELSE wire
    /\ UNCHANGED << seal, notSeal >>

\* seal.verify(msg, sig_b58), on the last signature handed out or on a string
\* no sign call made
Verify ==
    /\ seal.impl = "AuraSeal"
    /\ \E msg \in Msgs, sig_b58 \in Malformed \cup { wire.sig } :
           ret' = Ret("AuraSeal", "verify", <<>>, msg, sig_b58, "", verify(seal, msg, sig_b58),
                      <<>>, NoBorn)
    /\ UNCHANGED << seal, wire, notSeal >>

\* sig = aura.sign(msg) of auraseal_minimal.py
MSign ==
    /\ seal.impl = "Minimal"
    /\ \E msg \in Msgs :
           /\ ret' = Ret("Minimal", "sign", <<>>, msg, msign(seal, msg), "", FALSE, <<>>, NoBorn)
           /\ wire' = [sig |-> msign(seal, msg), msg |-> msg]
    /\ UNCHANGED << seal, notSeal >>

\* aura.verify(msg, sig) of auraseal_minimal.py
MVerify ==
    /\ seal.impl = "Minimal"
    /\ \E msg \in Msgs, sig \in Malformed \cup { wire.sig } :
           LET r == mverify(seal, msg, sig)
           IN  ret' = Ret("Minimal", "verify", <<>>, msg, sig, r.exc, r.bval, <<>>, NoBorn)
    /\ UNCHANGED << seal, wire, notSeal >>

Next == Birth \/ MBirth \/ Corrupt \/ Heal \/ Sign \/ Verify \/ MSign \/ MVerify

Spec == Init /\ [][Next]_vars

\* a session of src/auraseal.py in which nothing but its methods touches the
\* seal: birth, then sign, verify and heal in any order
NextSession == Birth \/ Heal \/ Sign \/ Verify

SpecSession == Init /\ [][NextSession]_vars

\* other = AuraSeal.birth(entropy) of src/auraseal.py: a second object, born
\* from entropy of its own (no draw is taken for it), with the first draw
\* for its seal id, which neither sign nor verify reads
PeerBirth ==
    \E entropy \in PeerEntropies :
        /\ peer' = birth(entropy, 1, 1)
        /\ wire' = NoWire
        /\ ret' = Ret("AuraSeal", "other.birth", entropy, <<>>, <<>>, "", FALSE, <<>>, NoBorn)
        /\ UNCHANGED << seal, arch, sha, data_structure, algorithm_structure,
                        auraseal512, mailer, pheno, trie, switch, system, threads >>

\* other = AuraSeal.birth() of auraseal_minimal.py: a second object
PeerMBirth ==
    \E t \in Tokens :
        /\ peer' = mbirth(t)
        /\ wire' = NoWire
        /\ ret' = Ret("Minimal", "other.birth", <<>>, <<>>, <<>>, "", FALSE, <<>>, NoBorn)
        /\ UNCHANGED << seal, arch, sha, data_structure, algorithm_structure,
                        auraseal512, mailer, pheno, trie, switch, system, threads >>

\* sig = other.sign(msg) of src/auraseal.py
PeerSign ==
    /\ peer.impl = "AuraSeal"
    /\ \E msg \in Msgs, t \in Tokens :
           LET r == sign(peer, msg, t)
           IN  /\ r.exc = ""
               /\ wire' = [sig |-> r.vec, msg |-> msg]
               /\ ret' = Ret("AuraSeal", "other.sign", <<>>, msg, r.vec, "", FALSE, <<>>, NoBorn)
    /\ UNCHANGED << seal, notSeal >>

\* sig = other.sign(msg) of auraseal_minimal.py
PeerMSign ==
    /\ peer.impl = "Minimal"
    /\ \E msg \in Msgs :
           /\ wire' = [sig |-> msign(peer, msg), msg |-> msg]
           /\ ret' = Ret("Minimal", "other.sign", <<>>, msg, msign(peer, msg), "", FALSE,
                         <<>>, NoBorn)
    /\ UNCHANGED << seal, notSeal >>

\* two objects: the second signs, the first verifies
NextPeer ==
    \/ Birth \/ MBirth \/ PeerBirth \/ PeerMBirth
    \/ PeerSign \/ PeerMSign \/ Verify \/ MVerify

SpecPeer == Init /\ [][NextPeer]_vars

\* engine.validate_compatibility(data_vector, algo_vector)
ValidateCompatibility ==
    /\ \E data_vector \in BitVectors, algo_vector \in BitVectors :
           arch' = [op |-> "validate_compatibility", a |-> data_vector, b |-> algo_vector,
                    res |-> validate_compatibility(data_vector, algo_vector)]
    /\ UNCHANGED << notArch, sha, data_structure, algorithm_structure >>

\* no earlier call to compare with
NoPrev == [exc |-> "none", vec |-> <<>>]

\* processor.validate_encoding_integrity(data_vector, algorithm_vector)
ValidateEncodingIntegrity ==
    /\ \E data_vector \in BitVectors, algorithm_vector \in BitVectors :
           arch' = [op |-> "validate_encoding_integrity",
                    a |-> data_vector, b |-> algorithm_vector,
                    res |-> validate_encoding_integrity(data_vector, algorithm_vector)]
    /\ UNCHANGED << notArch, sha, data_structure, algorithm_structure >>

\* encoder.encode(data, format) on an encoder of either class; prev is what
\* the call before returned when it was this same call
Encode ==
    /\ \E cls \in {"DataModelEncoder", "AlgorithmEncoder"}, data \in RawData,
          format \in BitVectors :
           LET r == IF cls = "DataModelEncoder" THEN DataModelEncoder_encode(data, format)
                    ELSE AlgorithmEncoder_encode(data, format)
           IN  arch' = [op |-> "encode", a |-> data, b |-> format,
                        res |-> [cls |-> cls, exc |-> r.exc, vec |-> r.vec,
                                 prev |-> IF arch.op = "encode" /\ arch.a = data
                                             /\ arch.b = format /\ arch.res.cls = cls
                                          THEN [exc |-> arch.res.exc, vec |-> arch.res.vec]
                                          ELSE NoPrev]]
    /\ UNCHANGED << notArch, sha, data_structure, algorithm_structure >>

\* data_structure = sha.process_data_model_encoding(raw_data); prev is what
\* the call before returned when it was this same call
ProcessDataModelEncoding ==
    /\ \E raw_data \in RawData :
           LET d == process_data_model_encoding(sha, raw_data)
           IN  /\ data_structure' = d
               /\ arch' = [op |-> "process_data_model_encoding", a |-> raw_data, b |-> <<>>,
                            res |-> [out |-> d,
                                     prev |-> IF arch.op = "process_data_model_encoding"
                                                 /\ arch.a = raw_data
                                              THEN arch.res.out ELSE NoStructure]]
    /\ UNCHANGED << notArch, sha, algorithm_structure >>

\* engine.map_execution_coordinates(data_encoding, algorithm_encoding)
MapExecutionCoordinates ==
    /\ \E data_encoding \in BitVectors, algorithm_encoding \in BitVectors :
           arch' = [op |-> "map_execution_coordinates",
                    a |-> data_encoding, b |-> algorithm_encoding,
                    res |-> map_execution_coordinates(data_encoding, algorithm_encoding)]
    /\ UNCHANGED << notArch, sha, data_structure, algorithm_structure >>

\* calls on the context-bound execution engine alone
NextCoord == MapExecutionCoordinates

SpecCoord == Init /\ [][NextCoord]_vars

NextArch ==
    ValidateCompatibility \/ ValidateEncodingIntegrity \/ Encode \/ ProcessDataModelEncoding

SpecArch == Init /\ [][NextArch]_vars

\* the first call of a validate/recover loop, on any pair of vectors
RecoveryStart ==
    /\ arch.op = "none"
    /\ ValidateEncodingIntegrity

\* the next round of the loop: the vectors of the RecoveryResult are handed
\* to validate_encoding_integrity again
Revalidate ==
    /\ arch.op = "validate_encoding_integrity"
    /\ arch.res.type = "RecoveryResult"
    /\ arch' = [op |-> "validate_encoding_integrity",
                a |-> arch.res.recovered_data_vector,
                b |-> arch.res.recovered_algorithm_vector,
                res |-> validate_encoding_integrity(arch.res.recovered_data_vector,
                                                    arch.res.recovered_algorithm_vector)]
    /\ UNCHANGED << notArch, sha, data_structure, algorithm_structure >>

NextRecovery == RecoveryStart \/ Revalidate

\* the loop goes on while it holds a RecoveryResult: a round that can be
\* taken is taken
SpecRecovery == Init /\ [][NextRecovery]_vars /\ WF_vars(Revalidate)

\* algorithm_structure = sha.process_algorithm_encoding(algorithm_logic)
ProcessAlgorithmEncoding ==
    /\ \E algorithm_logic \in AlgorithmLogic :
           LET s == process_algorithm_encoding(sha, algorithm_logic)
           IN  /\ algorithm_structure' = s
               /\ arch' = [op |-> "process_algorithm_encoding", a |-> algorithm_logic,
                            b |-> <<>>, res |-> s]
    /\ UNCHANGED << notArch, sha, data_structure >>

\* data_structure = FaultTolerantDataStructure(v, v, ...): a structure the
\* caller builds from a vector of its own
NewDataStructure ==
    /\ \E v \in BitVectors :
           /\ data_structure' =
                  FaultTolerantDataStructure(v, v, calculate_recovery_probability(v, v))
           /\ arch' = [op |-> "FaultTolerantDataStructure", a |-> v, b |-> v, res |-> <<>>]
    /\ UNCHANGED << notArch, sha, algorithm_structure >>

\* algorithm_structure = FaultTolerantAlgorithmStructure(e, e, ...): a
\* structure the caller builds from a vector of its own, with the coordinate
\* mapping of that vector
NewAlgorithmStructure ==
    /\ \E e \in BitVectors :
           /\ algorithm_structure' =
                  FaultTolerantAlgorithmStructure(e, e, generate_xy_coordinate_system(e, e))
           /\ arch' = [op |-> "FaultTolerantAlgorithmStructure", a |-> e, b |-> e, res |-> <<>>]
    /\ UNCHANGED << notArch, sha, data_structure >>

\* context = sha.execute_isomorphic_handshake(data_structure,
\* algorithm_structure); self is the architecture as the call found it
ExecuteIsomorphicHandshake ==
    /\ data_structure # NoStructure
    /\ algorithm_structure # NoStructure
    /\ LET r == execute_isomorphic_handshake(sha, data_structure, algorithm_structure)
       IN  arch' = [op |-> "execute_isomorphic_handshake",
                    a |-> data_structure, b |-> algorithm_structure,
                    res |-> [self |-> sha, exc |-> r.exc,
                             failure_vectors |-> r.failure_vectors,
                             context |-> r.context]]
    /\ UNCHANGED << notArch, sha, data_structure, algorithm_structure >>

\* a test fixture puts a pattern engine of its own in the recovery system
\* (or the shipped one back)
SetPatternRecognitionEngine ==
    /\ \E engine \in FixtureEngines \cup { PatternRecognitionEngine } :
           /\ engine # sha.pattern_recognition_engine
           /\ sha' = [sha EXCEPT !.pattern_recognition_engine = engine]
    /\ arch' = [op |-> "pattern_recognition_engine", a |-> <<>>, b |-> <<>>, res |-> <<>>]
    /\ UNCHANGED << notArch, data_structure, algorithm_structure >>

\* sha.detect_and_recover_corruption(program_reference)
DetectAndRecoverCorruption ==
    /\ \E program_reference \in ProgramReferences :
           arch' = [op |-> "detect_and_recover_corruption",
                    a |-> program_reference,
                    b |-> analyze(sha.pattern_recognition_engine, program_reference),
                    res |-> detect_corruption_signatures(sha, program_reference)]
    /\ UNCHANGED << notArch, sha, data_structure, algorithm_structure >>

NextSha ==
    \/ ProcessDataModelEncoding \/ ProcessAlgorithmEncoding
    \/ NewDataStructure \/ NewAlgorithmStructure
    \/ ExecuteIsomorphicHandshake
    \/ SetPatternRecognitionEngine \/ DetectAndRecoverCorruption

SpecSha == Init /\ [][NextSha]_vars

\* seal = AuraSeal512(): the keys are loaded from the key files, or generated
\* and saved
AuraSeal512Init ==
    /\ \E ts \in Timestamps, t \in Tokens :
           LET r == load_or_generate_keys(auraseal512.files, ts, t)
           IN  auraseal512' = [auraseal512 EXCEPT !.self = r.self, !.files = r.files,
                                                  !.ret = Ret512("__init__", "", Verdict512(FALSE, ""))]
    /\ UNCHANGED << seal, wire, ret, peer, arch, sha, data_structure, algorithm_structure, mailer,
                    pheno, trie, switch, system, threads >>

\* archive = seal.create_document_seal(document_path)
CreateDocumentSeal ==
    /\ auraseal512.self # NoKeys512
    /\ \E document_path \in Documents \cup { MissingDocument }, ts \in Timestamps, t \in Tokens :
           LET r == create_document_seal(auraseal512.self, document_path, ts, t)
           IN  auraseal512' =
                   [auraseal512 EXCEPT !.archive = IF r.exc = "" THEN r.archive ELSE @,
                                       !.ret = Ret512("create_document_seal", r.exc,
                                                      Verdict512(FALSE, ""))]
    /\ UNCHANGED << seal, wire, ret, peer, arch, sha, data_structure, algorithm_structure, mailer,
                    pheno, trie, switch, system, threads >>

\* somebody rewrites auraseal.metadata.json in the archive: another timestamp,
\* or another signature
AlterMetadata ==
    /\ auraseal512.archive # NoArchive512
    /\ IsJson(auraseal512.archive.metadata)
    /\ LET metadata == json_loads(auraseal512.archive.metadata)
       IN  \E altered \in { With(metadata, "seal_timestamp", "1999-12-31T00:00:00Z"),
                            With(metadata, "_auraseal_signature", Lit("forged")) } :
               /\ altered # metadata
               /\ auraseal512' = [auraseal512 EXCEPT !.archive.metadata = json_dumps(altered),
                                                     !.ret = Ret512("alter", "", Verdict512(FALSE, ""))]
    /\ UNCHANGED << seal, wire, ret, peer, arch, sha, data_structure, algorithm_structure, mailer,
                    pheno, trie, switch, system, threads >>

\* somebody rewrites the document in the archive
AlterDocument ==
    /\ auraseal512.archive # NoArchive512
    /\ auraseal512.archive.document # Lit("altered")
    /\ auraseal512' = [auraseal512 EXCEPT !.archive.document = Lit("altered"),
                                          !.ret = Ret512("alter", "", Verdict512(FALSE, ""))]
    /\ UNCHANGED << seal, wire, ret, peer, arch, sha, data_structure, algorithm_structure, mailer,
                    pheno, trie, switch, system, threads >>

\* somebody rewrites public.keys.json in the archive
AlterPublicKeys ==
    /\ auraseal512.archive # NoArchive512
    /\ LET forged == json_dumps([pub1 |-> Lit("forged"), pub2 |-> Lit("forged")])
       IN  /\ auraseal512.archive.public_keys # forged
           /\ auraseal512' = [auraseal512 EXCEPT !.archive.public_keys = forged,
                                                 !.ret = Ret512("alter", "", Verdict512(FALSE, ""))]
    /\ UNCHANGED << seal, wire, ret, peer, arch, sha, data_structure, algorithm_structure, mailer,
                    pheno, trie, switch, system, threads >>

\* public.keys.json is removed from the keys directory, private.key staying
RemovePublicKeysFile ==
    /\ auraseal512.files.public_keys # NoFile
    /\ auraseal512' = [auraseal512 EXCEPT !.files.public_keys = NoFile,
                                          !.ret = Ret512("remove", "", Verdict512(FALSE, ""))]
    /\ UNCHANGED << seal, wire, ret, peer, arch, sha, data_structure, algorithm_structure, mailer,
                    pheno, trie, switch, system, threads >>

\* seal.verify_document_seal(archive)
VerifyDocumentSeal ==
    /\ auraseal512.self # NoKeys512
    /\ LET r == verify_document_seal(auraseal512.self, auraseal512.archive)
       IN  auraseal512' = [auraseal512 EXCEPT !.ret = Ret512("verify_document_seal", r.exc, r.out)]
    /\ UNCHANGED << seal, wire, ret, peer, arch, sha, data_structure, algorithm_structure, mailer,
                    pheno, trie, switch, system, threads >>

Next512 ==
    \/ AuraSeal512Init \/ CreateDocumentSeal
    \/ AlterMetadata \/ AlterDocument \/ AlterPublicKeys
    \/ RemovePublicKeysFile
    \/ VerifyDocumentSeal

Spec512 == Init /\ [][Next512]_vars

\* python auraseal_mailer.py --file input_file --out-dir out_dir
CreateAuraSealArchive ==
    /\ Cardinality(DOMAIN mailer.out_dir) < MaxArchives
    /\ \E input_file \in Documents \cup { MissingDocument }, ts \in Timestamps, t \in Tokens :
           LET r == create_auraseal_archive(mailer, input_file, ts, t)
           IN  mailer' = [key_file |-> r.key_file,
                          public_keys_file |-> r.public_keys_file,
                          out_dir |-> IF r.exc = "" THEN With(mailer.out_dir, r.index, r.archive)
                                      ELSE mailer.out_dir,
                          ret |-> MailerRet("create_auraseal_archive", r.index, r.exc, FALSE)]
    /\ UNCHANGED << seal, wire, ret, peer, arch, sha, data_structure, algorithm_structure,
                    auraseal512, pheno, trie, switch, system, threads >>

\* python auraseal_mailer.py --verify archive_file, on an archive of out_dir
\* or on a path with no file
VerifyAuraSealArchive ==
    /\ \E i \in 1..(MaxArchives + 1) :
           /\ i \in DOMAIN mailer.out_dir \/ i = Cardinality(DOMAIN mailer.out_dir) + 1
           /\ mailer' = [mailer EXCEPT !.ret = MailerRet("verify_auraseal_archive", i, "",
                                                         verify_auraseal_archive(mailer, i))]
    /\ UNCHANGED << seal, wire, ret, peer, arch, sha, data_structure, algorithm_structure,
                    auraseal512, pheno, trie, switch, system, threads >>

\* the local private key file is removed (the next run makes a new key)
RemovePrivateKey ==
    /\ mailer.key_file # NoFile
    /\ mailer' = [mailer EXCEPT !.key_file = NoFile,
                                !.ret = MailerRet("remove", 0, "", FALSE)]
    /\ UNCHANGED << seal, wire, ret, peer, arch, sha, data_structure, algorithm_structure,
                    auraseal512, pheno, trie, switch, system, threads >>

NextMailer == CreateAuraSealArchive \/ VerifyAuraSealArchive \/ RemovePrivateKey

SpecMailer == Init /\ [][NextMailer]_vars

\* python auraseal_mailer.py --file a.pdf --out-dir out_dir, run after run on
\* the one document, or on a path with no file
RunMailer ==
    /\ Cardinality(DOMAIN mailer.out_dir) < MaxRuns
    /\ \E input_file \in { "a.pdf", MissingDocument } :
       LET r == create_auraseal_archive(mailer, input_file, "2025-01-01T00:00:00", 1)
       IN  mailer' = [key_file |-> r.key_file,
                      public_keys_file |-> r.public_keys_file,
                      out_dir |-> IF r.exc = "" THEN With(mailer.out_dir, r.index, r.archive)
                                  ELSE mailer.out_dir,
                      ret |-> MailerRet("create_auraseal_archive", r.index, r.exc, FALSE)]
    /\ UNCHANGED << seal, wire, ret, peer, arch, sha, data_structure, algorithm_structure,
                    auraseal512, pheno, trie, switch, system, threads >>

NextMailerRuns == RunMailer \/ VerifyAuraSealArchive \/ RemovePrivateKey

SpecMailerRuns == Init /\ [][NextMailerRuns]_vars

\* ------------------------------------ concurrent calls on one seal

\* the seals the threads share: born of 32 bytes of entropy, whole or with
\* vectors overwritten, and having signed a message
InitThreads ==
    /\ \E pub1 \in { birth(Lit("AAAAAAAAAAAAAAAAAAAAAAAAAAAAAAAA"), 1, 1).pub1, Garbage },
          pub2 \in { birth(Lit("AAAAAAAAAAAAAAAAAAAAAAAAAAAAAAAA"), 1, 1).pub2, Garbage } :
           LET born == birth(Lit("AAAAAAAAAAAAAAAAAAAAAAAAAAAAAAAA"), 1, 1)
               self == [born EXCEPT !.pub1 = pub1, !.pub2 = pub2]
               r == sign(self, Lit("hi"), 1)
           IN  /\ seal = self
               /\ wire = [sig |-> r.vec, msg |-> Lit("hi")]
               /\ ret = Ret("AuraSeal", "sign", <<>>, Lit("hi"), r.vec, r.exc, FALSE, <<>>,
                            NoBorn)
    /\ peer = NoSeal
    /\ arch = NoArch
    /\ sha \in { SelfHealingDataArchitecture(m) : m \in EncodingMatrices }
    /\ data_structure = NoStructure
    /\ algorithm_structure = NoStructure
    /\ auraseal512 = [self |-> NoKeys512, files |-> NoKeyFiles, archive |-> NoArchive512,
                      ret |-> NoRet512]
    /\ mailer = NoMailer
    /\ pheno = NoPheno
    /\ trie = NoTrie
    /\ switch = NoSwitch
    /\ system = NoSystem
    /\ threads = NoThreads

\* what a step of a thread leaves alone
notThreads == << seal, wire, ret, peer, arch, sha, data_structure, algorithm_structure,
                auraseal512, mailer, pheno, trie, switch, system >>

\* thread t calls seal.heal(damaged_pub)
CallHeal(t) ==
    /\ threads[t].pc \in {"idle", "done"}
    /\ \E damaged_pub \in { seal.pub1, seal.pub2, Garbage2 } :
           threads' = [threads EXCEPT ![t] = Thread("heal_compare", "heal", damaged_pub, <<>>,
                                                    <<>>, NoLocals, NoAnswer)]
    /\ UNCHANGED notThreads

\* damaged_pub != self.pub1
HealCompare(t) ==
    /\ threads[t].pc = "heal_compare"
    /\ threads' = [threads EXCEPT ![t].pc = "heal_load",
                                  ![t].loc.neq = (threads[t].arg # seal.pub1)]
    /\ UNCHANGED notThreads

\* heal loading the other vector when the comparison found them different
HealLoad_Reversed(t) ==
    /\ threads[t].pc = "heal_load"
    /\ threads' = [threads EXCEPT ![t].pc = "heal_test",
                                  ![t].loc.candidate = IF threads[t].loc.neq THEN seal.pub2
                                                       ELSE seal.pub1]
    /\ UNCHANGED notThreads

\* candidate = self.pub1 if ... else self.pub2
HealLoad(t) ==
    /\ threads[t].pc = "heal_load"
    /\ threads' = [threads EXCEPT ![t].pc = "heal_test",
                                  ![t].loc.candidate = IF threads[t].loc.neq THEN seal.pub1
                                                       ELSE seal.pub2]
    /\ UNCHANGED notThreads

\* if candidate.hex() in self.bloom: return candidate; raise ValueError
HealTest(t) ==
    /\ threads[t].pc = "heal_test"
    /\ threads' = [threads EXCEPT ![t] =
           Return(@, IF Hex(threads[t].loc.candidate) \in seal.bloom
                     THEN Answer("", FALSE, threads[t].loc.candidate)
                     ELSE Answer("ValueError", FALSE, <<>>))]
    /\ UNCHANGED notThreads

\* thread t calls seal.verify(msg, sig_b58), on the signature handed out or on
\* a string no sign call made
CallVerify(t) ==
    /\ threads[t].pc \in {"idle", "done"}
    /\ \E msg \in Msgs, sig_b58 \in { wire.sig, Lit("abc") } :
           threads' = [threads EXCEPT ![t] = Thread("verify_decode", "verify", <<>>, msg,
                                                    sig_b58, NoLocals, NoAnswer)]
    /\ UNCHANGED notThreads

\* data = base58.b58decode(sig_b58); sig, p1, p2 = ...
VerifyDecode(t) ==
    /\ threads[t].pc = "verify_decode"
    /\ LET d == b58decode(threads[t].sig)
       IN  threads' = [threads EXCEPT ![t] =
               IF ~d.ok THEN Return(@, Answer("", FALSE, <<>>))
               ELSE [@ EXCEPT !.pc = "verify_p1",
                              !.loc.sig = PyTo(d.v, -8),
                              !.loc.p1 = PySlice(d.v, -8, -4),
                              !.loc.p2 = PyFrom(d.v, -4)]]
    /\ UNCHANGED notThreads

\* p1 != self.pub1[:4]
VerifyP1(t) ==
    /\ threads[t].pc = "verify_p1"
    /\ threads' = [threads EXCEPT ![t] =
           IF threads[t].loc.p1 # PyTo(seal.pub1, 4) THEN Return(@, Answer("", FALSE, <<>>))
           ELSE [@ EXCEPT !.pc = "verify_p2"]]
    /\ UNCHANGED notThreads

\* or p2 != self.pub2[:4]
VerifyP2(t) ==
    /\ threads[t].pc = "verify_p2"
    /\ threads' = [threads EXCEPT ![t] =
           IF threads[t].loc.p2 # PyTo(seal.pub2, 4) THEN Return(@, Answer("", FALSE, <<>>))
           ELSE [@ EXCEPT !.pc = "verify_vk"]]
    /\ UNCHANGED notThreads

\* vk = self.pub1 + self.pub2
VerifyVk(t) ==
    /\ threads[t].pc = "verify_vk"
    /\ threads' = [threads EXCEPT ![t].pc = "verify_sk",
                                  ![t].loc.vk = Cat(seal.pub1, seal.pub2)]
    /\ UNCHANGED notThreads

\* sk = SigningKey.from_string(self.priv, ...); return ... == vk and
\* ...verify(sig, msg)
VerifySk(t) ==
    /\ threads[t].pc = "verify_sk"
    /\ threads' = [threads EXCEPT ![t] =
           Return(@, IF ~ValidKey(seal.priv) THEN Answer("", FALSE, <<>>)
                     ELSE Answer("", /\ verifying_key(seal.priv) = threads[t].loc.vk
                                     /\ ecdsa_verify(seal.priv, threads[t].loc.sig,
                                                     threads[t].msg),
                                 <<>>))]
    /\ UNCHANGED notThreads

NextThreads ==
    \E t \in Threads :
        \/ CallHeal(t) \/ HealCompare(t) \/ HealLoad(t) \/ HealTest(t)
        \/ CallVerify(t) \/ VerifyDecode(t) \/ VerifyP1(t) \/ VerifyP2(t)
        \/ VerifyVk(t) \/ VerifySk(t)

SpecThreads == InitThreads /\ [][NextThreads]_vars

\* ------------------------------------------------- the PhenoAVL archives

\* avl.generate_key_pair()
GenerateKeyPair ==
    /\ \E t \in Tokens :
           LET k == generate_key_pair(t)
           IN  pheno' = [pheno EXCEPT !.public_keys = k.public_keys,
                                      !.private_key = k.private_key,
                                      !.ret = PhenoRet("generate_key_pair", 0, FALSE)]
    /\ UNCHANGED << seal, wire, ret, peer, arch, sha, data_structure, algorithm_structure,
                    auraseal512, mailer, trie, switch, system, threads >>

\* archive_name = avl.create_version_archive(folder_path, version_data)
CreateVersionArchive ==
    /\ pheno.version <= MaxArchives
    /\ \E folder_path \in Folders, version_data \in VersionDatas :
           pheno' = [create_version_archive(pheno, folder_path, version_data)
                     EXCEPT !.ret = PhenoRet("create_version_archive", pheno.version, FALSE)]
    /\ UNCHANGED << seal, wire, ret, peer, arch, sha, data_structure, algorithm_structure,
                    auraseal512, mailer, trie, switch, system, threads >>

\* avl.verify_archive_integrity(archive_name), of an archive written or of a
\* name no archive has
VerifyArchiveIntegrity ==
    /\ \E i \in 1..(Len(pheno.archives) + 1) :
           pheno' = [pheno EXCEPT !.ret = PhenoRet("verify_archive_integrity", i,
                                                   verify_archive_integrity(pheno, i))]
    /\ UNCHANGED << seal, wire, ret, peer, arch, sha, data_structure, algorithm_structure,
                    auraseal512, mailer, trie, switch, system, threads >>

NextPheno == GenerateKeyPair \/ CreateVersionArchive \/ VerifyArchiveIntegrity

SpecPheno == Init /\ [][NextPheno]_vars

\* ------------------------------------------------- a PhenoAVLTrie on its own

\* what the calls on the trie leave alone
notTrie == << seal, wire, ret, peer, arch, sha, data_structure, algorithm_structure,
             auraseal512, mailer, pheno, switch, system, threads >>

\* trie.build_huffman_tree(text)
BuildHuffmanTree ==
    /\ \E text \in Texts :
           trie' = [build_huffman_tree(trie, text)
                    EXCEPT !.ret = TrieRet("build_huffman_tree", text, FALSE)]
    /\ UNCHANGED notTrie

\* root = trie.insert(key, freq); the last call tells whether the root returned
\* is another node than the root before
Insert ==
    /\ trie.inserts < MaxInserts
    /\ \E key \in TrieKeys, freq \in Freqs :
           LET after == insert(trie, key, freq)
           IN  trie' = [after EXCEPT !.inserts = @ + 1,
                                     !.ret = TrieRet("insert", key,
                                                     /\ trie.root # NoNode
                                                     /\ after.root.key # trie.root.key)]
    /\ UNCHANGED notTrie

\* trie.verify_integrity()
VerifyIntegrity ==
    /\ trie' = [trie EXCEPT !.ret = TrieRet("verify_integrity", "", verify_integrity(trie))]
    /\ UNCHANGED notTrie

NextTrie == BuildHuffmanTree \/ Insert \/ VerifyIntegrity

SpecTrie == Init /\ [][NextTrie]_vars

\* ------------------------------------------- the sparse consensus switches

\* what the calls on the switches leave alone
notSwitch == << seal, wire, ret, peer, arch, sha, data_structure, algorithm_structure,
               auraseal512, mailer, pheno, trie, system, threads >>

\* the caller assigns epsilon, a public attribute of either switch; the
\* repository's own callers leave it at its initial value
SetEpsilon ==
    /\ \E e \in SparseStates :
           \/ switch' = [switch EXCEPT !.policy_switch.epsilon = e,
                                       !.ret = SwitchRet("PolicySwitch", <<>>, "None", e,
                                                         "none")]
           \/ switch' = [switch EXCEPT !.sparse_switch.epsilon = e,
                                       !.ret = SwitchRet("SparseSwitch", <<>>, "None", e,
                                                         "none")]
    /\ UNCHANGED notSwitch

\* PolicySwitch.derive(input_stream)
Derive ==
    /\ \E input_stream \in Streams :
           switch' = [switch EXCEPT !.ret =
                         SwitchRet("PolicySwitch", input_stream, "None",
                                   switch.policy_switch.epsilon,
                                   derive(switch.policy_switch, input_stream))]
    /\ UNCHANGED notSwitch

\* SparseSwitch.derive(input_ast, override), nums the numbers of input_ast
SparseDerive ==
    /\ \E nums \in Streams, override \in Overrides :
           switch' = [switch EXCEPT !.ret =
                         SwitchRet("SparseSwitch", nums, override,
                                   switch.sparse_switch.epsilon,
                                   sparse_derive(switch.sparse_switch, nums, override))]
    /\ UNCHANGED notSwitch

NextSwitch == SetEpsilon \/ Derive \/ SparseDerive

SpecSwitch == Init /\ [][NextSwitch]_vars

\* --------------------------------------------- the consciousness systems

\* what the calls on a consciousness system leave alone
notSystem == << seal, wire, ret, peer, arch, sha, data_structure, algorithm_structure,
               auraseal512, mailer, pheno, trie, switch, threads >>

\* how many updates, failures and integrity checks one system is followed for
MaxCalls == 8
MaxFailures == 16
MaxChecks == 255

\* system = ConsciousnessSystem() of conscionss_state.py
NewConsciousnessSystem ==
    /\ system = NoSystem
    /\ system' = ConsciousnessSystem
    /\ UNCHANGED notSystem

\* system = ConsciousnessSystem() of enhanced.py
NewEnhancedSystem ==
    /\ system = NoSystem
    /\ system' = EnhancedConsciousnessSystem
    /\ UNCHANGED notSystem

\* system.update_sensory_initialization(sensor_type, progress) of
\* conscionss_state.py
UpdateSensoryInitialization ==
    /\ system.module = "conscionss_state"
    /\ system.calls < MaxCalls
    /\ \E sensor_type \in Sensors, progress \in Progresses :
           system' = [update_sensory_initialization(system, sensor_type, progress)
                      EXCEPT !.calls = @ + 1,
                             !.ret = SystemRet("update_sensory_initialization", <<>>)]
    /\ UNCHANGED notSystem

\* system.update_sensory_initialization(sensor_type, progress) of enhanced.py
EnhancedUpdateSensoryInitialization ==
    /\ system.module = "enhanced"
    /\ system.calls < MaxCalls
    /\ \E sensor_type \in Sensors, progress \in Progresses :
           system' = [enhanced_update_sensory_initialization(system, sensor_type, progress)
                      EXCEPT !.calls = @ + 1,
                             !.ret = SystemRet("update_sensory_initialization", <<>>)]
    /\ UNCHANGED notSystem

\* system.update() of enhanced.py
EnhancedUpdate ==
    /\ system.module = "enhanced"
    /\ system.calls < MaxCalls
    /\ \E due \in BOOLEAN, late \in BOOLEAN, developed \in BOOLEAN :
           system' = [enhanced_update(system, due, late, developed)
                      EXCEPT !.calls = @ + 1, !.ret = SystemRet("update", <<>>)]
    /\ UNCHANGED notSystem

NextStates ==
    \/ NewConsciousnessSystem
    \/ NewEnhancedSystem
    \/ UpdateSensoryInitialization
    \/ EnhancedUpdateSensoryInitialization
    \/ EnhancedUpdate

SpecStates == Init /\ [][NextStates]_vars

\* system.circuit_breaker.allow_operation()
AllowOperation ==
    /\ system # NoSystem
    /\ \E elapsed \in BOOLEAN :
           LET r == allow_operation(system.circuit_breaker, elapsed)
           IN  system' = [system EXCEPT !.circuit_breaker = r.self,
                                        !.ret = SystemRet("allow_operation", r.allowed)]
    /\ UNCHANGED notSystem

\* system.circuit_breaker.record_success()
RecordSuccess ==
    /\ system # NoSystem
    /\ system' = [system EXCEPT !.circuit_breaker = record_success(@),
                                !.ret = SystemRet("record_success", <<>>)]
    /\ UNCHANGED notSystem

\* system.circuit_breaker.record_failure()
RecordFailure ==
    /\ system # NoSystem
    /\ system.circuit_breaker.failure_count < MaxFailures
    /\ system' = [system EXCEPT !.circuit_breaker = record_failure(@),
                                !.ret = SystemRet("record_failure", <<>>)]
    /\ UNCHANGED notSystem

NextBreaker ==
    \/ NewConsciousnessSystem
    \/ NewEnhancedSystem
    \/ AllowOperation
    \/ RecordSuccess
    \/ RecordFailure

SpecBreaker == Init /\ [][NextBreaker]_vars

\* system.query_information_field(query) of conscionss_state.py
QueryInformationField ==
    /\ system.module = "conscionss_state"
    /\ system.protective_barrier.integrity > 1000 - MaxChecks
    /\ \E query \in Queries, heartbeat \in BOOLEAN, elapsed \in BOOLEAN :
           LET r == query_information_field(system, query, heartbeat, elapsed)
           IN  system' = [r.self EXCEPT !.ret = SystemRet("query_information_field",
                                                          r.value)]
    /\ UNCHANGED notSystem

NextBarrier == NewConsciousnessSystem \/ QueryInformationField

SpecBarrier == Init /\ [][NextBarrier]_vars

\* ------------------------------------------------------------------ claims

\* the vector v is membership-valid: its fingerprint is in the seal's oracle
Valid(v) == Hex(v) \in seal.bloom

\* the last call verified the last signature handed out
VerifiedWire == ret.op = "verify" /\ wire # NoWire /\ ret.sig = wire.sig

\* C1: on a seal of src/auraseal.py as birth made it, verify(m, sign(m))
\* returns True for every message m.
C1_Soundness ==
    ( /\ VerifiedWire /\ ret.impl = "AuraSeal"
      /\ Valid(seal.pub1) /\ Valid(seal.pub2)
      /\ ret.msg = wire.msg )
    => (ret.exc = "" /\ ret.bval)

\* C2: in both implementations verify(m', sign(m)) returns False whenever m'
\* differs from m.
C2_TamperEvident ==
    (VerifiedWire /\ ret.msg # wire.msg) => (ret.exc = "" /\ ~ret.bval)

\* a minimal seal refused its own signature under another message
C2_Witness ==
    /\ VerifiedWire /\ ret.impl = "Minimal"
    /\ wire.sig = msign(seal, wire.msg)
    /\ ret.msg # wire.msg
    /\ ret.exc = "" /\ ~ret.bval

\* C3: in both implementations verify never raises, and answers False to a
\* malformed signature string.
C3_VerifyTotal ==
    ret.op = "verify" => (ret.exc = "" /\ (ret.sig \in Malformed => ~ret.bval))

\* C4: when pub1 is membership-valid, heal(damaged) with damaged different
\* from pub1 and not membership-valid returns exactly pub1.
C4_HealReturnsKnownGood ==
    (ret.op = "heal" /\ Valid(seal.pub1) /\ ret.arg # seal.pub1 /\ ~Valid(ret.arg))
    => (ret.exc = "" /\ ret.vec = seal.pub1)

\* heal was handed a corrupted vector and returned the valid pub1
C4_Witness ==
    /\ ret.op = "heal" /\ Valid(seal.pub1) /\ ret.arg # seal.pub1 /\ ~Valid(ret.arg)
    /\ ret.exc = "" /\ ret.vec = seal.pub1

\* C5: when neither pub1 nor pub2 is membership-valid, heal raises the breach
\* error whatever its argument, and returns no vector.
C5_DualCorruptionFails ==
    (ret.op = "heal" /\ ~Valid(seal.pub1) /\ ~Valid(seal.pub2))
    => (ret.exc = "ValueError" /\ ret.vec = <<>>)

\* heal raised on a seal whose two vectors are both corrupted
C5_Witness ==
    /\ ret.op = "heal" /\ ~Valid(seal.pub1) /\ ~Valid(seal.pub2)
    /\ ret.exc = "ValueError"

\* C6: whenever pub1 or pub2 is membership-valid, heal returns a
\* membership-valid vector and does not raise, whatever its argument.
C6_HealsWhenOneValid ==
    (ret.op = "heal" /\ (Valid(seal.pub1) \/ Valid(seal.pub2)))
    => (ret.exc = "" /\ Valid(ret.vec))

\* the last two calls were births of src/auraseal.py with the same entropy
BornTwice == ret.impl = "AuraSeal" /\ ret.op = "birth" /\ ret.prev # NoBorn
             /\ ret.prev.entropy = ret.arg

SameDerivation == ret.prev.priv = seal.priv /\ ret.prev.pub1 = seal.pub1
                  /\ ret.prev.pub2 = seal.pub2

C8_RejectsShortEntropy ==
    (ret.impl = "AuraSeal" /\ ret.op = "birth" /\ BLen(ret.arg) < 32)
    => ret.exc = "InsufficientEntropy"

\* the number of positions at which two vectors of one length agree
Agreement(v, w) == Cardinality({ i \in 1..Len(v) : v[i] = w[i] })

\* C9: validate_compatibility(v, v) is authentic, with scores of at least
\* the coherence threshold.
C9_Reflexive ==
    (arch.op = "validate_compatibility" /\ arch.a = arch.b)
    => ( /\ arch.res.is_authentic
         /\ arch.res.integrity_score >= CoherenceThreshold
         /\ arch.res.authenticity_score >= CoherenceThreshold )

\* C10: vectors of one length that agree at less than the coherence
\* threshold's share of their positions are not authentic.
C10_RequiresCoherence ==
    ( /\ arch.op = "validate_compatibility"
      /\ Len(arch.a) = Len(arch.b)
      /\ Agreement(arch.a, arch.b) * 1000 < CoherenceThreshold * Len(arch.a) )
    => ~arch.res.is_authentic

\* C11: vectors of different lengths are not authentic: both scores are 0 and
\* the pair is returned as failure_vectors.
C11_LengthMismatch ==
    (arch.op = "validate_compatibility" /\ Len(arch.a) # Len(arch.b))
    => ( /\ ~arch.res.is_authentic
         /\ arch.res.integrity_score = 0
         /\ arch.res.authenticity_score = 0
         /\ arch.res.failure_vectors = << arch.a, arch.b >> )

\* vectors of lengths 1 and 2 were refused and handed back
C11_Witness ==
    /\ arch.op = "validate_compatibility"
    /\ Len(arch.a) = 1 /\ Len(arch.b) = 2
    /\ ~arch.res.is_authentic
    /\ arch.res.failure_vectors = << arch.a, arch.b >>

\* the last call was the handshake
Handshaken == arch.op = "execute_isomorphic_handshake"

\* C12: the handshake returns a context ready for execution only when
\* validate_compatibility reports the pair authentic; otherwise it raises
\* AuthenticityValidationException carrying both vectors, and changes no field
\* of the architecture or of the two structures.
C12_HardFailGate ==
    Handshaken =>
        LET h == validate_compatibility(arch.a.primary_vector, arch.b.execution_encoding)
        IN  /\ (arch.res.exc = "" /\ arch.res.context.context_bound_execution_ready)
                    => h.is_authentic
            /\ ~h.is_authentic =>
                    /\ arch.res.exc = "AuthenticityValidationException"
                    /\ arch.res.failure_vectors
                           = << arch.a.primary_vector, arch.b.execution_encoding >>
                    /\ ~arch.res.context.context_bound_execution_ready
                    /\ sha = arch.res.self
                    /\ data_structure = arch.a
                    /\ algorithm_structure = arch.b

\* the handshake raised on vectors of different lengths
C12_Witness ==
    /\ Handshaken
    /\ Len(arch.a.primary_vector) # Len(arch.b.execution_encoding)
    /\ arch.res.exc = "AuthenticityValidationException"
    /\ sha = arch.res.self /\ data_structure = arch.a /\ algorithm_structure = arch.b

\* C13: the handshake marks a pair ready for context-bound execution only if
\* the pair's coordinate mapping is aligned.
C13_AlignedAdmission ==
    (Handshaken /\ arch.res.exc = "" /\ arch.res.context.context_bound_execution_ready)
    => arch.b.xy_coordinate_mapping.data_algorithm_alignment

\* C14: detect_corruption_signatures returns a RecoveredReferenceResult
\* exactly when the analysed corruption_probability is above 0.7, and
\* otherwise a CorruptionAnalysisResult with corruption_detected = False.
C14_CorruptionRouting ==
    arch.op = "detect_and_recover_corruption" =>
        IF arch.b.corruption_probability > 700
        THEN arch.res.type = "RecoveredReferenceResult"
        ELSE arch.res.type = "CorruptionAnalysisResult" /\ ~arch.res.corruption_detected

\* a probability of 0.9 was escalated to the reconstruction path
C14_Witness ==
    /\ arch.op = "detect_and_recover_corruption"
    /\ arch.b.corruption_probability = 900
    /\ arch.res.type = "RecoveredReferenceResult"

\* C15: no RecoveredReferenceResult reaches the caller marked as not
\* requiring validation.
C15_Revalidated ==
    (arch.op = "detect_and_recover_corruption" /\ arch.res.type = "RecoveredReferenceResult")
    => arch.res.validation_required

\* C16: validate_encoding_integrity returns a ValidationResult exactly when
\* both vectors pass the checksum, then with data_integrity and
\* algorithm_integrity True; otherwise the RecoveryResult of the recovery
\* protocol.
C16_ValidationRouting ==
    arch.op = "validate_encoding_integrity" =>
        IF PySum(arch.a) % 2 = 0 /\ PySum(arch.b) % 2 = 0
        THEN /\ arch.res.type = "ValidationResult"
             /\ arch.res.data_integrity /\ arch.res.algorithm_integrity
        ELSE /\ arch.res.type = "RecoveryResult"
             /\ arch.res = initiate_self_recovery_protocol(arch.a, arch.b)

\* a data vector of even and an algorithm vector of odd parity went to recovery
C16_Witness ==
    /\ arch.op = "validate_encoding_integrity"
    /\ arch.a = << 1, 1 >> /\ arch.b = << 1, 0 >>
    /\ arch.res.type = "RecoveryResult"

VerifiedPeerWire ==
    /\ ret.op = "verify" /\ wire # NoWire
    /\ ret.sig = wire.sig /\ ret.msg = wire.msg
    /\ peer # NoSeal /\ peer.priv # seal.priv

\* C18: for seals A and B born from different entropy, B.verify(m, A.sign(m))
\* returns False, in both implementations.
C18_BoundToSigner == VerifiedPeerWire => (ret.exc = "" /\ ~ret.bval)

\* a minimal seal refused the signature another minimal seal made of the
\* same message
C18_Witness ==
    /\ VerifiedPeerWire
    /\ ret.impl = "Minimal" /\ peer.impl = "Minimal"
    /\ wire.sig = msign(peer, wire.msg)
    /\ ret.exc = "" /\ ~ret.bval

\* the signature stored in the archive's metadata validates over the rest of
\* that metadata under the key of the object
SignatureValidates ==
    /\ IsJson(auraseal512.archive.metadata)
    /\ LET metadata == json_loads(auraseal512.archive.metadata)
           signed == Without(metadata, {"_auraseal_signature", "_public_key_fingerprints"})
       IN  rsa_verify(auraseal512.self.private_key,
                      b64decode(metadata["_auraseal_signature"]), json_dumps(signed))

\* C19: verify_document_seal reports valid = True only if the signature in
\* the archive's metadata validates over that metadata under the sealing key;
\* metadata altered after sealing is reported valid = False.
C19_SignatureChecked ==
    (auraseal512.ret.op = "verify_document_seal" /\ auraseal512.ret.out.valid)
    => SignatureValidates

\* the archive of index i is as create_auraseal_archive made it under the
\* private key now in the key file
AsSealed(i) ==
    /\ i \in DOMAIN mailer.out_dir
    /\ mailer.key_file # NoFile
    /\ IsJson(mailer.out_dir[i].metadata)
    /\ LET metadata == json_loads(mailer.out_dir[i].metadata)
           signed == Without(metadata, {"_auraseal_signature",
                                        "_auraseal_private_key_fingerprint"})
       IN  /\ metadata["_auraseal_signature"]
                  = make_signature(ArchiveName(i), signed, mailer.key_file)
           /\ metadata["_auraseal_private_key_fingerprint"]
                  = PyTo(Hex(sha256(mailer.key_file)), 16)

\* C20: verify_auraseal_archive returns True on an archive that
\* create_auraseal_archive made and nobody modified, the private key file
\* being the same.
C20_MailerRoundTrip ==
    (mailer.ret.op = "verify_auraseal_archive" /\ AsSealed(mailer.ret.index))
    => mailer.ret.ok

\* the archive of index i is as create_version_archive wrote it, on this
\* object, with the private key the object still holds
AsArchived(i) ==
    /\ i \in DOMAIN pheno.archives
    /\ IsJson(pheno.archives[i].metadata)
    /\ LET metadata == json_loads(pheno.archives[i].metadata)
           version_data == Without(metadata, {"_auraseal_signature", "_auraseal_version",
                                              "_auraseal_coherence"})
       IN  /\ "_auraseal_signature" \in DOMAIN metadata
           /\ metadata["_auraseal_signature"] =
                  create_archive_signature(pheno, ArchiveName(i), version_data).signature

\* C21: on a PhenoAVL object whose generate_key_pair was called,
\* verify_archive_integrity of an archive that create_version_archive wrote
\* on that object returns True.
C21_PhenoRoundTrip ==
    (/\ pheno.ret.op = "verify_archive_integrity"
     /\ pheno.private_key # PyNone
     /\ AsArchived(pheno.ret.archive))
    => pheno.ret.ok

\* the last call was verify of auraseal_minimal.py, on the signature the seal
\* last handed out and on the message it signed
MinimalRoundTrip ==
    /\ VerifiedWire /\ ret.impl = "Minimal" /\ seal.impl = "Minimal"
    /\ wire.sig = msign(seal, wire.msg)
    /\ ret.msg = wire.msg

\* C22: on a seal of auraseal_minimal.py as birth made it, verify(m, sign(m))
\* returns True for every message m.
C22_MinimalSoundness == MinimalRoundTrip => (ret.exc = "" /\ ret.bval)

\* a minimal seal accepted its own signature of the message
C22_Witness == MinimalRoundTrip /\ ret.exc = "" /\ ret.bval

\* C23: after birth and after any sequence of sign, verify and heal calls,
\* pub1 and pub2 of the seal are both in the seal's membership oracle, and no
\* call but a birth, which makes a new oracle, takes a fingerprint out of it.
C23_OracleInvariant ==
    /\ [](seal.impl = "AuraSeal" => (Valid(seal.pub1) /\ Valid(seal.pub2)))
    /\ [][ret'.op # "birth" => seal.bloom \subseteq seal'.bloom]_vars

\* heal was called on a seal whose two vectors are in its oracle
C23_Witness ==
    /\ seal.impl = "AuraSeal" /\ ret.op = "heal"
    /\ Valid(seal.pub1) /\ Valid(seal.pub2)
    /\ Cardinality(seal.bloom) = 2

\* C24: a call of verify or heal, whatever it answers, leaves priv, pub1,
\* pub2, seal_id and the oracle of the seal as they were; the oracle changes
\* in a birth alone; and verify called again on the same message and
\* signature answers the same.
C24_ReadOnly ==
    /\ [][ret'.op \in {"verify", "heal"} => seal' = seal]_vars
    /\ [][seal'.bloom # seal.bloom => ret'.op = "birth"]_vars
    /\ [][(/\ ret.op = "verify" /\ ret'.op = "verify"
           /\ ret'.msg = ret.msg /\ ret'.sig = ret.sig)
          => (ret'.bval = ret.bval /\ ret'.exc = ret.exc)]_vars

\* heal raised on a seal of src/auraseal.py, one of whose vectors is
\* corrupted, and the seal is as it was
C24_Witness ==
    /\ ret.impl = "AuraSeal" /\ ret.op = "heal" /\ ret.exc = "ValueError"
    /\ seal.pub2 = Garbage /\ Valid(seal.pub1)
    /\ Cardinality(seal.bloom) = 2

\* what the call thread t is in answers when it runs alone on the seal
Alone(t) ==
    IF threads[t].op = "heal"
    THEN LET r == heal(seal, threads[t].arg) IN Answer(r.exc, FALSE, r.vec)
    ELSE Answer("", verify(seal, threads[t].msg, threads[t].sig), <<>>)

\* C25: however the steps of verify and heal calls of several threads on one
\* seal interleave, each call answers what it answers when run alone, and no
\* step changes the seal, its oracle or the signature.
C25_ConcurrentSafety ==
    /\ [](\A t \in Threads : threads[t].pc = "done" => threads[t].res = Alone(t))
    /\ [][seal' = seal /\ wire' = wire]_vars

\* a heal that raised has returned while a verify of another thread stands
\* between its reads of the seal
C25_Witness ==
    \E t, u \in Threads :
        /\ threads[t].pc = "done" /\ threads[t].op = "heal"
        /\ threads[t].res.exc = "ValueError"
        /\ threads[u].pc = "verify_vk"

\* C26: once heal has raised the breach error on a seal, the heal call that
\* follows on that seal, whatever its argument, raises it too and returns no
\* vector.
C26_BreachTerminal ==
    [][(ret.op = "heal" /\ ret.exc = "ValueError" /\ ret'.op = "heal")
       => (ret'.exc = "ValueError" /\ ret'.vec = <<>>)]_vars

\* C27: the primary and the secondary vector process_data_model_encoding
\* returns, and the execution and the context vector
\* process_algorithm_encoding returns, each pass the processor's parity
\* checksum.
C27_FreshPairsPass ==
    /\ arch.op = "process_data_model_encoding"
       => (/\ calculate_binary_checksum(arch.res.out.primary_vector)
           /\ calculate_binary_checksum(arch.res.out.secondary_vector))
    /\ arch.op = "process_algorithm_encoding"
       => (/\ calculate_binary_checksum(arch.res.execution_encoding)
           /\ calculate_binary_checksum(arch.res.context_encoding))

\* the last call was validate_encoding_integrity on two vectors of which one
\* alone fails its checksum
OneCorrupted ==
    /\ arch.op = "validate_encoding_integrity"
    /\ calculate_binary_checksum(arch.a) # calculate_binary_checksum(arch.b)

\* C28: when one alone of the two vectors handed to
\* validate_encoding_integrity fails its checksum, the RecoveryResult holds
\* the vector that passed as it was, and for the one that failed a vector
\* that passes.
C28_RecoversOnlyCorrupted ==
    OneCorrupted =>
        /\ arch.res.type = "RecoveryResult"
        /\ calculate_binary_checksum(arch.res.recovered_data_vector)
        /\ calculate_binary_checksum(arch.res.recovered_algorithm_vector)
        /\ calculate_binary_checksum(arch.a) => arch.res.recovered_data_vector = arch.a
        /\ calculate_binary_checksum(arch.b) => arch.res.recovered_algorithm_vector = arch.b

\* C29: from any pair of bit vectors, calling validate_encoding_integrity
\* and handing the vectors of each RecoveryResult back to it leads to a
\* ValidationResult.
C29_RecoveryConverges ==
    (arch.op = "validate_encoding_integrity")
    ~> (arch.op = "validate_encoding_integrity" /\ arch.res.type = "ValidationResult")

\* the number of positions at which two vectors of one length agree
Agreeing(x, y) == Cardinality({ i \in 1..Len(x) : x[i] = y[i] })

\* C30: when both checksums pass, the cross_validation_score of the
\* ValidationResult, in thousandths, is the share of the positions at which
\* the two vectors (of one length, not empty) agree: 1000 for two identical
\* vectors, 0 for two complementary ones.
C30_ScoreIsAgreementRatio ==
    (/\ arch.op = "validate_encoding_integrity"
     /\ arch.res.type = "ValidationResult"
     /\ Len(arch.a) = Len(arch.b) /\ Len(arch.a) > 0)
    => arch.res.cross_validation_score * Len(arch.a) = 1000 * Agreeing(arch.a, arch.b)

\* C31: when detect_corruption_signatures returns corruption_detected =
\* False, its integrity_score, in thousandths, is 1000 less the
\* corruption_probability the pattern engine found.
C31_IntegrityIsComplement ==
    (/\ arch.op = "detect_and_recover_corruption"
     /\ arch.res.type = "CorruptionAnalysisResult"
     /\ ~arch.res.corruption_detected)
    => arch.res.integrity_score = 1000 - arch.b.corruption_probability

\* C32: map_execution_coordinates(e, c) has fault_tolerance_capability 0.9
\* when data_algorithm_alignment is True and 0.1 when it is not.
C32_ToleranceFollowsAlignment ==
    arch.op = "map_execution_coordinates" =>
        arch.res.fault_tolerance_capability
            = IF arch.res.data_algorithm_alignment THEN 900 ELSE 100

\* C33: map_execution_coordinates(e, c) sets x = sum(e), y = sum(c),
\* context_binding = (x + y > 0) and data_algorithm_alignment =
\* context_binding and x = y; two all-zero vectors are not aligned.
C33_CoordinateAlignment ==
    arch.op = "map_execution_coordinates" =>
        LET node == arch.res.execution_coordinate
        IN  /\ node.x_position = PySum(arch.a)
            /\ node.y_position = PySum(arch.b)
            /\ node.context_binding = (PySum(arch.a) + PySum(arch.b) > 0)
            /\ arch.res.data_algorithm_alignment
                   = (node.context_binding /\ PySum(arch.a) = PySum(arch.b))
            /\ (PySum(arch.a) = 0 /\ PySum(arch.b) = 0) => ~arch.res.data_algorithm_alignment

\* two vectors of different bits and one sum were found aligned
C33_Witness ==
    /\ arch.op = "map_execution_coordinates"
    /\ arch.a # arch.b /\ PySum(arch.a) = 1
    /\ arch.res.data_algorithm_alignment

\* C34: a create_auraseal_archive call into an out_dir that holds the
\* archives of the calls before it takes an index above the index of every
\* archive there, and leaves each of them as it was.
C34_NamesNeverCollide ==
    [][(mailer'.ret.op = "create_auraseal_archive" /\ mailer'.ret.exc = "")
       => \A j \in DOMAIN mailer.out_dir :
              /\ mailer'.ret.index > j
              /\ mailer'.out_dir[j] = mailer.out_dir[j]]_vars

\* the eleventh archive stands next to the ten before it
C34_Witness ==
    /\ mailer.ret.op = "create_auraseal_archive" /\ mailer.ret.exc = ""
    /\ mailer.ret.index = 11
    /\ DOMAIN mailer.out_dir = 1..11

\* C35: when private.key exists as an AuraSeal512 is constructed, whether or
\* not public.keys.json does, the file is left as it was and its key is the
\* key of the object.
C35_PrivateKeyKept ==
    [][(auraseal512'.ret.op = "__init__" /\ auraseal512.files.private_key # NoFile)
       => (/\ auraseal512'.files.private_key = auraseal512.files.private_key
           /\ auraseal512'.self.private_key
                  = load_pem_private_key(auraseal512.files.private_key))]_vars

\* the keys under a node, and the height of the subtree as counted from its
\* leaves
RECURSIVE NodeKeys(_)
NodeKeys(node) ==
    IF node = NoNode THEN {}
    ELSE {node.key} \cup NodeKeys(node.left) \cup NodeKeys(node.right)
RECURSIVE TreeHeight(_)
TreeHeight(node) ==
    IF node = NoNode THEN 0 ELSE 1 + PyMax(TreeHeight(node.left), TreeHeight(node.right))

\* every node under this one has smaller keys to its left and larger keys to
\* its right, a stored balance factor that is the difference of the heights of
\* its subtrees and is -1, 0 or 1, and the checksum of its own fields
RECURSIVE IsPhenoAVL(_)
IsPhenoAVL(node) ==
    \/ node = NoNode
    \/ /\ \A k \in NodeKeys(node.left) : PathLess(k, node.key)
       /\ \A k \in NodeKeys(node.right) : PathLess(node.key, k)
       /\ node.balance_factor = TreeHeight(node.left) - TreeHeight(node.right)
       /\ node.balance_factor \in {-1, 0, 1}
       /\ node.checksum = calculate_checksum(node.key, node.huffman_code, node.frequency)
       /\ IsPhenoAVL(node.left)
       /\ IsPhenoAVL(node.right)

\* C36: after any sequence of insert calls the trie is a binary search tree by
\* key, every node's stored balance factor is height(left) - height(right) and
\* lies in {-1, 0, 1}, every node's checksum matches its key, code and
\* frequency, and verify_integrity() returns True
C36_AVLInvariant ==
    /\ IsPhenoAVL(trie.root)
    /\ verify_integrity(trie)
    /\ (trie.ret.op = "verify_integrity" => trie.ret.ok)

\* C36: the fourth insert has rotated the root of a trie that holds three
\* keys, one of them inserted twice
C36_Witness ==
    /\ trie.ret.op = "insert"
    /\ trie.ret.ok
    /\ trie.inserts = 4
    /\ Cardinality(NodeKeys(trie.root)) = 3

\* C37: derive returns CONNECT for every input carrying the EE override, also
\* while epsilon is the 00-veto; without the override it returns REJECT whenever
\* epsilon is the veto, whatever the coherence pairs; and it returns EXECUTE or
\* SWITCH only when epsilon is not the veto
C37_PolicyPrecedence ==
    LET r == switch.ret
        overridden == IF r.cls = "PolicySwitch" THEN StartsWithEE(r.input)
                      ELSE r.override = "EE"
    IN  r.policy # "none" =>
            /\ overridden => r.policy = "CONNECT"
            /\ (~overridden /\ r.epsilon = SparseState_OO) => r.policy = "REJECT"
            /\ r.policy \in { "EXECUTE", "SWITCH" } => r.epsilon # SparseState_OO

\* C37: a PolicySwitch under the veto has answered CONNECT to a stream that
\* starts with EE and whose pairs do not pass
C37_Witness ==
    /\ switch.ret.cls = "PolicySwitch"
    /\ switch.ret.epsilon = SparseState_OO
    /\ StartsWithEE(switch.ret.input)
    /\ ~check_coherence_pairs(switch.ret.input)
    /\ switch.ret.policy = "CONNECT"

\* C38: across update_sensory_initialization calls, with any sensor and any
\* progress, also one below 1.0 for a sensor already initialized, and across
\* update calls, the state of the ConsciousnessSystem never decreases, and in
\* the enhanced system the dimensional state never decreases either
C38_NonReversible ==
    [][/\ (system.module = "conscionss_state" /\ system'.module = "conscionss_state")
          => system'.state >= system.state
       /\ (system.module = "enhanced" /\ system'.module = "enhanced")
          => /\ system'.consciousness_state >= system.consciousness_state
             /\ system'.dimensional_state >= system.dimensional_state]_vars

\* C38: a system of conscionss_state.py is CONSCIOUS, all its sensors
\* initialized, and the last update gave one of them a progress of 0.5
C38_Witness ==
    /\ system.module = "conscionss_state"
    /\ system.state = CONSCIOUS
    /\ system.ret.op = "update_sensory_initialization"
    /\ \E t \in Sensors : /\ system.sensors[t].initialized
                          /\ system.sensors[t].initialization_progress = 500

\* C39: in every state reached by allow_operation, record_success and
\* record_failure calls, a record_failure on a HALF-OPEN breaker puts it back
\* to OPEN, and a record_success on a HALF-OPEN breaker puts it to CLOSED with
\* failure_count 0
C39_TrialSemantics ==
    [][(system # NoSystem /\ system.circuit_breaker.state = "HALF-OPEN")
       => /\ system'.ret.op = "record_failure"
             => system'.circuit_breaker.state = "OPEN"
          /\ system'.ret.op = "record_success"
             => /\ system'.circuit_breaker.state = "CLOSED"
                /\ system'.circuit_breaker.failure_count = 0]_vars

\* the answer of a query whose integrity check failed
IntegrityCheckFailed == [error |-> "System integrity check failed"]

\* C40: in the ConsciousnessSystem of conscionss_state.py no
\* query_information_field call raises the barrier's integrity, a call that
\* checks the barrier lowers it by 0.001, and once a query has returned
\* 'System integrity check failed' with the integrity not above the threshold
\* of 0.75, every later query returns that error
C40_DegradationPermanent ==
    [][(system.module = "conscionss_state" /\ system'.ret.op = "query_information_field")
       => /\ \/ system'.protective_barrier.integrity = system.protective_barrier.integrity
             \/ system'.protective_barrier.integrity
                    = system.protective_barrier.integrity - degradation
          /\ (/\ system.ret.value = IntegrityCheckFailed
              /\ system.protective_barrier.integrity <= integrity_threshold)
             => system'.ret.value = IntegrityCheckFailed]_vars

\* C40: a query has failed its integrity check on a barrier that earlier
\* queries had already worn down to below the threshold
C40_Witness ==
    /\ system.module = "conscionss_state"
    /\ system.ret.value = IntegrityCheckFailed
    /\ system.protective_barrier.integrity = integrity_threshold - 2

====
